---- MODULE Spec2Model ----
(***************************************************************************)
(* Will Execution & Distribution Engine of the Silene backend.             *)
(*                                                                         *)
(* State: the SQLite store (wills, linked_wallets, transactions), the      *)
(* wall clock, and one record per executeWill invocation holding the       *)
(* invocation's working copy of the will and its position between two      *)
(* awaits.  Every action is one synchronous run of a handler: from its     *)
(* entry, or from the resolution of an await, up to its next await or its  *)
(* return.                                                                 *)
(*                                                                         *)
(* Amounts are integers in units of 0.01 KITE (10^16 wei), so that the     *)
(* gas reserve (0.01), the minimum custody gas (0.05) and the default      *)
(* limits (100 and 1000) are all whole numbers.  Percentages are integers  *)
(* in hundredths of a percent (36.3% = 3630).                              *)
(***************************************************************************)
EXTENDS Integers, Sequences, FiniteSets, TLC

\* ------------------------------------------------------------------ bounds
MaxCalls == 2      \* executeWill invocations in one behaviour
MaxDay   == 2      \* calendar dates the clock runs through
MaxNow   == 2      \* Date.now() readings that stamp a row (a will or a link)
MaxBalance == 1000 \* the balances the amount formula is applied to
MaxSocial == 3     \* quantified social intents in one weighted distribution

\* --------------------------------------------------------- program constants
DefaultPerTxLimit == 10000    \* parseEther('100')
DefaultDailyLimit == 100000   \* parseEther('1000')
minGasRequired    == 5        \* parseEther('0.05')
gasReserve        == 1        \* parseEther('0.01')

\* ------------------------------------------------------------ input domains
\* "A" is the checksummed (mixed-case) spelling of the address "a".
Addresses == {"a", "A", "b"}

toLowerCase(x) == IF x = "A" THEN "a" ELSE x

NoWill == [willId |-> 0]

Ben(addr, name, pct) == [address |-> addr, name |-> name, percentage |-> pct]

\* customLimits?: Partial<SpendingLimits> as sent in the authorize request body
NoCustom == [f \in {} |-> 0]

\* totalAmount in units of 0.01, validUntil as a calendar date; every request
\* bounds its authorization by 10.00 and by day 1
Authorize(owner, signature, beneficiaries, useStablecoin, customLimits) ==
  [owner |-> owner, signature |-> signature, beneficiaries |-> beneficiaries,
   totalAmount |-> 1000, validUntil |-> 1,
   useStablecoin |-> useStablecoin, spendingLimits |-> customLimits]

B6040 == << Ben("x", "X", 6000), Ben("y", "Y", 4000) >>

B100 == << Ben("x", "X", 10000) >>

\* a list whose percentages sum to 90
B6030 == << Ben("x", "X", 6000), Ben("y", "Y", 3000) >>

\* The bodies of POST /api/will/authorize.  A signature is written as the
\* address its recovery yields, or "malformed" when recovery throws.
AuthorizeRequests ==
  { Authorize("a", "a", B6040, TRUE,  [perTxLimit |-> 500, dailyLimit |-> 1000]),
    Authorize("A", "A", B6040, FALSE,
              [perTxLimit |-> 1000, dailyLimit |-> 1000, dailySpent |-> 400]),
    Authorize("a", "A", B6040, FALSE, NoCustom),
    Authorize("b", "b", B100,  TRUE,  NoCustom),
    Authorize("b", "b", B6030, TRUE,  NoCustom),
    Authorize("a", "b", B100,  TRUE,  NoCustom),
    Authorize("b", "malformed", B6040, FALSE, NoCustom) }

\* what a balance / allowance query may answer (besides throwing)
Balances == {0, 1, 1001}

\* what provider.getBalance(custody) may answer (besides throwing)
GasBalances == {4, 5}

\* ----------------------------------------------------------------- state
VARIABLES
  wills,          \* table wills: sequence of rows, willId = index
  linked,         \* table linked_wallets: set of rows, unique on (willId, address)
  txs,            \* table transactions: set of rows, unique on txHash
  now,            \* Date.now(), as the count of readings that stamped a row
  today,          \* new Date().toISOString().split('T')[0]
  nextHash,       \* the ledger's next transaction hash
  exec,           \* one record per executeWill invocation
  reply,          \* what the last storeWillAuthorization call returned
  calc,           \* a call of a pure function: its arguments and its value
  chain           \* the ledger: the operations it has confirmed, by hash

vars == << wills, linked, txs, now, today, nextHash, exec, reply, calc, chain >>

Calls == 1 .. MaxCalls

\* the willIds a request may name: every row takes a stamp, so these are the
\* ids of all rows there can be, some of them of no row yet
WillIds == 1 .. MaxNow

\* ---------------------------------------------------------------- database.ts
getWillById(willId) ==
  IF willId \in DOMAIN wills THEN wills[willId] ELSE NoWill

\* the row with the greatest createdAt among ids (ORDER BY createdAt DESC LIMIT 1)
Latest(ids) ==
  CHOOSE i \in ids : \A j \in ids : wills[j].createdAt <= wills[i].createdAt

getWillByOwner(owner) ==
  LET exact == { i \in DOMAIN wills : wills[i].owner = toLowerCase(owner) }
      ci    == { i \in DOMAIN wills : toLowerCase(wills[i].owner) = toLowerCase(owner) }
  IN  IF exact # {} THEN wills[Latest(exact)]
      ELSE IF ci # {} THEN wills[Latest(ci)]
      ELSE NoWill

\* INSERT OR REPLACE INTO wills: replaces the row of the same willId, else appends
saveWill(will) ==
  IF will.willId \in DOMAIN wills
    THEN [wills EXCEPT ![will.willId] = will]
    ELSE Append(wills, will)

updateWillStatus(willId, status) ==
  IF willId \in DOMAIN wills
    THEN [wills EXCEPT ![willId].status = status]
    ELSE wills

\* INSERT OR REPLACE INTO transactions, txHash UNIQUE
saveTransaction(tx) ==
  { t \in txs : t.txHash # tx.txHash } \cup { tx }

\* INSERT OR REPLACE INTO linked_wallets, UNIQUE(willId, address); address lower-cased
saveLinkedWallet(rows, wallet) ==
  LET row == [wallet EXCEPT !.address = toLowerCase(wallet.address)]
  IN  { r \in rows : ~(r.willId = row.willId /\ r.address = row.address) } \cup { row }

getLinkedWallet(willId, address) ==
  { r \in linked : r.willId = willId /\ toLowerCase(r.address) = toLowerCase(address) }

\* UPDATE linked_wallets SET status = 'removed'
removeLinkedWallet(willId, address) ==
  { IF r.willId = willId /\ toLowerCase(r.address) = toLowerCase(address)
      THEN [r EXCEPT !.status = "removed"] ELSE r : r \in linked }

\* ORDER BY approvedAt DESC
RECURSIVE SortByApprovedAt_descending(_)
SortByApprovedAt_descending(rows) ==
  IF rows = {} THEN << >>
  ELSE LET first == CHOOSE r \in rows : \A s \in rows : r.approvedAt >= s.approvedAt
       IN  << first >> \o SortByApprovedAt_descending(rows \ { first })

RECURSIVE SortByApprovedAt(_)
SortByApprovedAt(rows) ==
  IF rows = {} THEN << >>
  ELSE LET first == CHOOSE r \in rows : \A s \in rows : r.approvedAt <= s.approvedAt
       IN  << first >> \o SortByApprovedAt(rows \ { first })

\* WHERE willId = ? AND status = 'approved' ORDER BY approvedAt ASC
getLinkedWalletsByWillId(willId) ==
  SortByApprovedAt({ r \in linked : r.willId = willId /\ r.status = "approved" })

\* ------------------------------------------------------------- willService.ts
DEFAULT_SPENDING_LIMITS ==
  [perTxLimit |-> DefaultPerTxLimit, dailyLimit |-> DefaultDailyLimit,
   dailySpent |-> 0, lastResetDate |-> 1]

\* { ...DEFAULT_SPENDING_LIMITS, ...customLimits }
MergeLimits(custom) ==
  [f \in DOMAIN DEFAULT_SPENDING_LIMITS |->
     IF f \in DOMAIN custom THEN custom[f] ELSE DEFAULT_SPENDING_LIMITS[f]]

\* the reset moving the date but keeping the accumulator
ResetIfNewDay_keepsSpent(limits, day) ==
  IF limits.lastResetDate # day THEN [limits EXCEPT !.lastResetDate = day] ELSE limits

\* the lazy reset of checkSpendingLimits
ResetIfNewDay(limits, day) ==
  IF limits.lastResetDate # day
    THEN [limits EXCEPT !.dailySpent = 0, !.lastResetDate = day]
    ELSE limits

\* the per-transaction comparison left out
ExceedsPerTx_never(limits, amount) == FALSE

ExceedsPerTx(limits, amount) == amount > limits.perTxLimit

ExceedsDaily(limits, amount) == limits.dailySpent + amount > limits.dailyLimit

\* checkSpendingLimits(will, amount): the limits as the call leaves them, and its answer
checkSpendingLimits(limits, amount, day) ==
  LET l == ResetIfNewDay(limits, day)
  IN  IF ExceedsPerTx(l, amount)
        THEN [limits |-> l, allowed |-> FALSE, reason |-> "Exceeds per-transaction limit"]
      ELSE IF ExceedsDaily(l, amount)
        THEN [limits |-> l, allowed |-> FALSE, reason |-> "Exceeds daily limit"]
      ELSE [limits |-> l, allowed |-> TRUE, reason |-> ""]

\* the commit overwriting the accumulator instead of adding to it
updateDailySpent_overwrites(limits, amount) == [limits EXCEPT !.dailySpent = amount]

updateDailySpent(limits, amount) ==
  [limits EXCEPT !.dailySpent = limits.dailySpent + amount]

\* Math.trunc in the place of Math.round
percentageScaled_truncates(percentage) == percentage \div 10

\* Math.round(percentage * 10), the percentage given in hundredths of a percent
percentageScaled(percentage) == (percentage + 5) \div 10

\* (balance * BigInt(percentageScaled)) / 1000n
Amount(balance, percentage) == (balance * percentageScaled(percentage)) \div 1000

\* the comparison of the recovered address with the owner left out
verifyWillAuthorization_anySigner(owner, signature) == signature # "malformed"

\* recoveredAddress.toLowerCase() === owner.toLowerCase(); a malformed signature throws
verifyWillAuthorization(owner, signature) ==
  /\ signature # "malformed"
  /\ toLowerCase(signature) = toLowerCase(owner)


\* ------------------------------------------------------ executeWill: the record
NoCheck == [amount |-> 0, allowed |-> FALSE]

\* An invocation that has not been made yet.  will is the working copy that
\* getWillById returned; linkedWallets, w, b are the position in the two loops;
\* log holds the skip / failure lines the loops print; lastCheck, submitted and
\* queried record what the invocation asked of the limiter and of the ledger;
\* history is the trace of will.spendingLimits: one entry per limiter check,
\* per commit (updateDailySpent) and per failed transfer, with the limits
\* before and after it.
IdleExec ==
  [pc |-> "idle", willId |-> 0, owner |-> "", overrideBeneficiaries |-> << >>,
   will |-> NoWill,
   linkedWallets |-> << >>, w |-> 0, b |-> 0, walletBalance |-> 0, amount |-> 0,
   results |-> << >>, deathTxHash |-> 0, success |-> FALSE, error |-> "",
   log |-> {}, lastCheck |-> NoCheck, submitted |-> {}, queried |-> {},
   removedAtLoad |-> {}, history |-> << >>]

\* An invocation whose response has been sent and whose locals are gone.
Returned == [IdleExec EXCEPT !.pc = "returned"]

Running(c) == exec[c].pc \notin {"idle", "done", "returned"}

\* return { success: false, error }
Fail(e, error) == [e EXCEPT !.pc = "done", !.success = FALSE, !.error = error]

\* the validation of executeWill, in the order of the code; "" when it passes
WillFound(will) == will # NoWill

OwnerMatches(will, owner) == toLowerCase(will.owner) = toLowerCase(owner)


\* the status check left out
StatusIsPending_dropped(will) == TRUE

StatusIsPending(will) == will.status = "pending"

\* a validation that also compares the signed validity bound with the date
ValidationError_checksValidUntil(will, owner) ==
  IF ~WillFound(will) THEN "Will not found"
  ELSE IF ~OwnerMatches(will, owner) THEN "Owner mismatch"
  ELSE IF ~StatusIsPending(will) THEN "Will already executed"
  ELSE IF will.validUntil < today THEN "Authorization expired"
  ELSE ""

ValidationError(will, owner) ==
  IF ~WillFound(will) THEN "Will not found"
  ELSE IF ~OwnerMatches(will, owner) THEN "Owner mismatch"
  ELSE IF ~StatusIsPending(will) THEN "Will already executed"
  ELSE ""

UsesKitepass(will) == will.useKitepass /\ will.kitepassAddress # ""

FailedResult(e, b, amount, error) ==
  [wallet |-> e.w, beneficiary |-> e.will.beneficiaries[b].name, txHash |-> 0,
   amount |-> amount, status |-> "failed", error |-> error]

ConfirmedResult(e, b, amount, txHash) ==
  [wallet |-> e.w, beneficiary |-> e.will.beneficiaries[b].name, txHash |-> txHash,
   amount |-> amount, status |-> "confirmed", error |-> ""]

\* for (const linkedWallet of linkedWallets): the next wallet's balance query, or
\* the end of the loop
NextWallet(e) ==
  IF e.w < Len(e.linkedWallets)
    THEN [e EXCEPT !.pc = "balance", !.w = e.w + 1, !.b = 0, !.lastCheck = NoCheck]
    ELSE [e EXCEPT !.pc = "finish", !.lastCheck = NoCheck]

\* for (const beneficiary of will.beneficiaries), from index b on, up to the
\* first transfer it awaits; then on to the next wallet
RECURSIVE FanOut(_, _, _)
FanOut(e, b, day) ==
  IF b > Len(e.will.beneficiaries) THEN NextWallet(e)
  ELSE
    LET amount == Amount(e.walletBalance, e.will.beneficiaries[b].percentage)
    IN  IF amount = 0
          THEN FanOut([e EXCEPT !.log = @ \cup {<< "zero amount", e.w, b >>}], b + 1, day)
        ELSE
          LET chk == checkSpendingLimits(e.will.spendingLimits, amount, day)
              e1  == [e EXCEPT !.will.spendingLimits = chk.limits,
                               !.lastCheck = [amount |-> amount, allowed |-> chk.allowed],
                               !.history = Append(@,
                                  [op |-> "check", amount |-> amount, day |-> day,
                                   before |-> e.will.spendingLimits,
                                   after |-> chk.limits, allowed |-> chk.allowed])]
          IN  IF ~chk.allowed
                THEN FanOut([e1 EXCEPT !.results =
                                Append(@, FailedResult(e, b, amount, chk.reason))],
                            b + 1, day)
                ELSE [e1 EXCEPT !.pc = "transfer", !.b = b, !.amount = amount,
                                !.submitted = @ \cup
                                  {[kind |-> "transfer", wallet |-> e.w, b |-> b,
                                    amount |-> amount, check |-> e1.lastCheck]}]

\* executeWithKitepass: for (const beneficiary of will.beneficiaries), up to
\* the first withdrawal it awaits
RECURSIVE VaultFanOut(_, _)
VaultFanOut(e, b) ==
  IF b > Len(e.will.beneficiaries) THEN [e EXCEPT !.pc = "finish"]
  ELSE
    LET amount == Amount(e.walletBalance, e.will.beneficiaries[b].percentage)
    IN  IF amount = 0
          THEN VaultFanOut([e EXCEPT !.log = @ \cup {<< "zero amount", 0, b >>}], b + 1)
          ELSE [e EXCEPT !.pc = "withdraw", !.b = b, !.amount = amount,
                         !.submitted = @ \cup
                           {[kind |-> "withdraw", wallet |-> 0, b |-> b,
                             amount |-> amount, check |-> e.lastCheck]}]

\* the wallets the fan-out iterates: the approved rows, or the owner when there are none
FanOutWallets(willId, will) ==
  LET rows == getLinkedWalletsByWillId(willId)
  IN  IF Len(rows) = 0
        THEN << will.owner >>
        ELSE [i \in 1 .. Len(rows) |-> rows[i].address]

\* native balance minus the gas reserve
Distributable(rawBalance) ==
  IF rawBalance > gasReserve THEN rawBalance - gasReserve ELSE 0

\* The run reached e.  At the end of the loops ("finish") the same run performs
\* updateWillStatus(willId, 'executed') and returns { success: true, ... }.
Continue(c, e) ==
  IF e.pc = "finish"
    THEN /\ wills' = updateWillStatus(e.willId, "executed")
         /\ exec' = [exec EXCEPT ![c] = [e EXCEPT !.pc = "done", !.success = TRUE]]
    ELSE /\ wills' = wills
         /\ exec' = [exec EXCEPT ![c] = e]


\* no call has returned yet
NoReply == [success |-> FALSE, willId |-> 0, error |-> "none"]

NoCalc == [fn |-> "none"]

\* ------------------------------------------------------------------- Init
\* No code under src/ sets useKitepass or kitepassAddress of a row: a will run
\* through the vault is a row the database file already holds when the
\* server opens it.
VaultWill(beneficiaries) ==
  [willId |-> 1, owner |-> "a", beneficiaries |-> beneficiaries,
   totalAmount |-> 1000, validUntil |-> 1, createdAt |-> 1,
   status |-> "pending", useStablecoin |-> TRUE,
   spendingLimits |-> [DEFAULT_SPENDING_LIMITS EXCEPT !.perTxLimit = 500,
                                                      !.dailyLimit = 1000],
   useKitepass |-> TRUE, kitepassAddress |-> "vault"]

Init ==
  /\ \/ /\ wills = << >>
        /\ linked = {}
        /\ now = 0
     \/ /\ wills = << VaultWill(B6040) >>
        /\ linked = {[willId |-> 1, address |-> "a", approvedAt |-> 1,
                      status |-> "approved"]}
        /\ now = 1
  /\ txs = {}
  /\ today = 1
  /\ nextHash = 1
  /\ exec = [c \in Calls |-> IdleExec]
  /\ reply = NoReply
  /\ calc = NoCalc
  /\ chain = {}

\* the status check of the re-authorization left out
UpdatesExisting_anyStatus(existingWill) == existingWill # NoWill

\* ------------------------------------------------- storeWillAuthorization
\* existingWill && existingWill.status === 'pending'
UpdatesExisting(existingWill) ==
  existingWill # NoWill /\ existingWill.status = "pending"

StoreWillAuthorization(owner, beneficiaries, totalAmount, validUntil, signature, useStablecoin, customLimits) ==
  /\ now < MaxNow
  /\ IF ~verifyWillAuthorization(owner, signature)
       THEN /\ UNCHANGED << wills, linked, now >>
            /\ reply' = [success |-> FALSE, willId |-> 0, error |-> "Invalid signature"]
       ELSE LET existingWill == getWillByOwner(owner)
            IN  IF UpdatesExisting(existingWill)
                  THEN /\ wills' = saveWill([existingWill EXCEPT
                                       !.beneficiaries = beneficiaries,
                                       !.totalAmount = totalAmount,
                                       !.validUntil = validUntil,
                                       !.createdAt = now + 1,
                                       !.useStablecoin = useStablecoin])
                       /\ now' = now + 1
                       /\ UNCHANGED linked
                       /\ reply' = [success |-> TRUE, willId |-> existingWill.willId,
                                    error |-> ""]
                  ELSE /\ LET willId == Len(wills) + 1
                          IN  /\ wills' = saveWill(
                                   [willId |-> willId, owner |-> owner,
                                    beneficiaries |-> beneficiaries,
                                    totalAmount |-> totalAmount,
                                    validUntil |-> validUntil,
                                    createdAt |-> now + 1, status |-> "pending",
                                    useStablecoin |-> useStablecoin,
                                    spendingLimits |-> MergeLimits(customLimits),
                                    useKitepass |-> FALSE, kitepassAddress |-> ""])
                              /\ linked' = saveLinkedWallet(linked,
                                   [willId |-> willId, address |-> owner,
                                    approvedAt |-> now + 1, status |-> "approved"])
                              /\ reply' = [success |-> TRUE, willId |-> willId,
                                           error |-> ""]
                       /\ now' = now + 1
  /\ UNCHANGED << txs, today, nextHash, exec, calc, chain >>

\* ------------------------------------------------- linked-wallet endpoints
\* POST /api/will/:willId/wallets
AddLinkedWallet(willId, address) ==
  /\ now < MaxNow
  /\ willId \in DOMAIN wills      \* FOREIGN KEY (willId) REFERENCES wills(willId)
  /\ LET existing == getLinkedWallet(willId, address)
     IN  IF \E r \in existing : r.status = "approved"
           THEN UNCHANGED << linked, now >>
           ELSE /\ linked' = saveLinkedWallet(linked,
                     [willId |-> willId, address |-> toLowerCase(address),
                      approvedAt |-> now + 1, status |-> "approved"])
                /\ now' = now + 1
  /\ UNCHANGED << wills, txs, today, nextHash, exec, reply, calc, chain >>

\* DELETE /api/will/:willId/wallets/:address
RemoveLinkedWallet(willId, address) ==
  /\ linked' = removeLinkedWallet(willId, address)
  /\ UNCHANGED << wills, txs, now, today, nextHash, exec, reply, calc, chain >>

\* midnight (UTC) passes
Midnight ==
  /\ today < MaxDay
  /\ today' = today + 1
  /\ UNCHANGED << wills, linked, txs, now, nextHash, exec, reply, calc, chain >>

\* ------------------------------------------------------------ executeWill
\* the override list left aside
UseOverride_ignored(will, overrideBeneficiaries) == will

\* if (overrideBeneficiaries && overrideBeneficiaries.length > 0)
\*   will.beneficiaries = overrideBeneficiaries;   (<< >>: absent or empty)
UseOverride(will, overrideBeneficiaries) ==
  IF Len(overrideBeneficiaries) > 0
    THEN [will EXCEPT !.beneficiaries = overrideBeneficiaries]
    ELSE will

\* entry to the first await (provider.getBalance of the custody wallet)
Entry(c, willId, owner, overrideBeneficiaries) ==
  /\ exec[c].pc = "idle"
  /\ LET will  == getWillById(willId)
         error == ValidationError(will, owner)
         e     == [exec[c] EXCEPT !.willId = willId, !.owner = owner,
                                  !.overrideBeneficiaries = overrideBeneficiaries]
     IN  exec' = [d \in Calls |->
                    IF d = c
                      THEN IF error # "" THEN Fail(e, error)
                           ELSE [e EXCEPT !.pc = "gas",
                                          !.will = UseOverride(will, overrideBeneficiaries)]
                    ELSE IF exec[d].pc = "done" THEN Returned
                    ELSE exec[d]]
  /\ UNCHANGED << wills, linked, txs, now, today, nextHash, reply, calc, chain >>

\* an invocation made when the invocations before it have returned
ExecuteWill(c, willId, owner, overrideBeneficiaries) ==
  /\ \A d \in Calls : d < c => exec[d].pc \in {"done", "returned"}
  /\ Entry(c, willId, owner, overrideBeneficiaries)

\* the custody balance arrives, or the query throws
GasCheck(c) ==
  /\ exec[c].pc = "gas"
  /\ \/ exec' = [exec EXCEPT ![c] = Fail(@, "gas balance query failed")]
     \/ \E custodyBalance \in GasBalances :
          exec' = [exec EXCEPT ![c] =
                     IF custodyBalance < minGasRequired
                       THEN Fail(@, "Custody wallet has insufficient gas")
                       ELSE [@ EXCEPT !.pc = "death"]]
  /\ UNCHANGED << wills, linked, txs, now, today, nextHash, reply, calc, chain >>

\* what follows the death declaration, up to the next await
AfterDeath(e) ==
  IF UsesKitepass(e.will)
    THEN [e EXCEPT !.pc = "vault"]
    ELSE LET e1 == [e EXCEPT
                      !.linkedWallets = FanOutWallets(e.willId, e.will),
                      !.removedAtLoad =
                         { r.address : r \in { x \in linked :
                              x.willId = e.willId /\ x.status = "removed" } }]
         IN  IF e.will.useStablecoin
               THEN [e1 EXCEPT !.pc = "meta"]
               ELSE NextWallet(e1)

\* An operation the ledger has confirmed.  from is the account it debited (for
\* recordDeath, the sender), to the account it was told to credit, amount the
\* value moved (for recordDeath, _beneficiaryCount).
LedgerOp(txHash, op, willId, from, to, amount) ==
  [txHash |-> txHash, op |-> op, willId |-> willId, from |-> from, to |-> to,
   amount |-> amount]

\* require(certificates[_willId].timestamp == 0, "Already recorded"): a will
\* whose declaration is on record cannot be declared again
AlreadyRecorded(willId) ==
  \E o \in chain : o.op = "recordDeath" /\ o.willId = willId

\* the catch (deathError) returning the failure to the caller
DeathFailed_blocks(e) == Fail(e, "death declaration failed")

\* catch (deathError): a warning is logged, deathTxHash stays undefined and
\* the run goes on
DeathFailed(e) == AfterDeath(e)

\* recordDeath + tx.wait(): confirmed and recorded; or no hash, the contract
\* not being configured, the call throwing, the confirmation failing or the
\* registry reverting (caught, non-blocking)
DeathDeclaration(c) ==
  /\ exec[c].pc = "death"
  /\ \/ /\ ~AlreadyRecorded(exec[c].willId)
        /\ exec' = [exec EXCEPT ![c] = AfterDeath([@ EXCEPT !.deathTxHash = nextHash])]
        /\ txs' = saveTransaction(
                    [txHash |-> nextHash, willId |-> exec[c].willId,
                     owner |-> exec[c].will.owner, beneficiaryAddress |-> "registry",
                     amount |-> 0, txType |-> "DEATH_DECLARATION",
                     status |-> "confirmed"])
        /\ chain' = chain \cup
                    {LedgerOp(nextHash, "recordDeath", exec[c].willId, "custody",
                              "registry", Len(exec[c].will.beneficiaries))}
        /\ nextHash' = nextHash + 1
     \/ /\ exec' = [exec EXCEPT ![c] = DeathFailed(@)]
        /\ UNCHANGED << txs, nextHash, chain >>
  /\ UNCHANGED << wills, linked, now, today, reply, calc >>

\* tokenContract.symbol() / decimals() answer, or throw into the outer catch
TokenMetadata(c) ==
  /\ exec[c].pc = "meta"
  /\ \/ exec' = [exec EXCEPT ![c] = NextWallet(@)]
     \/ exec' = [exec EXCEPT ![c] = Fail(@, "token metadata query failed")]
  /\ UNCHANGED << wills, linked, txs, now, today, nextHash, reply, calc, chain >>

\* the wallet's balance arrives, or the query throws (walletError)
BalanceQuery(c) ==
  /\ exec[c].pc = "balance"
  /\ LET e == [exec[c] EXCEPT !.queried = @ \cup {exec[c].linkedWallets[exec[c].w]}]
     IN  \/ Continue(c, NextWallet([e EXCEPT !.log = @ \cup {<< "wallet failed", e.w, 0 >>}]))
         \/ \E raw \in Balances :
              LET walletBalance ==
                    IF e.will.useStablecoin THEN raw ELSE Distributable(raw)
                  e1 == [e EXCEPT !.walletBalance = walletBalance]
              IN  IF walletBalance = 0
                    THEN Continue(c, NextWallet(
                           [e1 EXCEPT !.log = @ \cup {<< "zero balance", e.w, 0 >>}]))
                  ELSE IF e.will.useStablecoin
                    THEN Continue(c, [e1 EXCEPT !.pc = "allowance"])
                  ELSE Continue(c, FanOut(e1, 1, today))
  /\ UNCHANGED << linked, txs, now, today, nextHash, reply, calc, chain >>

\* the wallet's allowance to the custody wallet arrives, or the query throws
AllowanceQuery(c) ==
  /\ exec[c].pc = "allowance"
  /\ LET e == exec[c]
     IN  \/ Continue(c, NextWallet([e EXCEPT !.log = @ \cup {<< "wallet failed", e.w, 0 >>}]))
         \/ \E allowance \in Balances :
              IF allowance = 0
                THEN Continue(c, NextWallet(
                       [e EXCEPT !.log = @ \cup {<< "zero allowance", e.w, 0 >>}]))
                ELSE Continue(c, FanOut(e, 1, today))
  /\ UNCHANGED << linked, txs, now, today, nextHash, reply, calc, chain >>

\* a confirmed transfer that is not added to dailySpent
Confirmed_uncommitted(e, txHash) ==
  [e EXCEPT !.results = Append(@, ConfirmedResult(e, e.b, e.amount, txHash)),
            !.lastCheck = NoCheck]

\* a confirmed transfer: updateDailySpent, saveTransaction, results.push
Confirmed(e, txHash) ==
  [e EXCEPT !.will.spendingLimits = updateDailySpent(@, e.amount),
            !.results = Append(@, ConfirmedResult(e, e.b, e.amount, txHash)),
            !.lastCheck = NoCheck,
            !.history = Append(@,
               [op |-> "commit", amount |-> e.amount, day |-> 0,
                before |-> e.will.spendingLimits,
                after |-> updateDailySpent(e.will.spendingLimits, e.amount),
                allowed |-> TRUE])]

\* the catch (txError) only logging, pushing no result
TxFailed_silent(e) == [e EXCEPT !.lastCheck = NoCheck]

\* catch (txError): results.push of a failed entry, nothing else
TxFailed(e) ==
  [e EXCEPT !.results = Append(@, FailedResult(e, e.b, e.amount, "tx error")),
            !.lastCheck = NoCheck,
            !.history = Append(@,
               [op |-> "fail", amount |-> e.amount, day |-> 0,
                before |-> e.will.spendingLimits, after |-> e.will.spendingLimits,
                allowed |-> TRUE])]

\* after a confirmed transfer the inner loop goes on with the next beneficiary
AfterTxConfirmed(e, txHash, day) == FanOut(Confirmed(e, txHash), e.b + 1, day)

\* the catch (txError) rethrowing into the outer catch of executeWill
AfterTxFailure_rethrows(e, day) == Fail(TxFailed(e), "tx error")

\* the catch (txError) placed around the inner loop: a failure ends the wallet
AfterTxFailure_breaks(e, day) == NextWallet(TxFailed(e))

\* after the catch (txError) the inner loop goes on with the next beneficiary
AfterTxFailure(e, day) == FanOut(TxFailed(e), e.b + 1, day)

\* the record written when the transfer is submitted, before its confirmation
DistributionRecord_atSubmission(e, source, txHash) ==
  [txHash |-> txHash, willId |-> e.willId, owner |-> source,
   beneficiaryAddress |-> e.will.beneficiaries[e.b].address,
   amount |-> e.amount, txType |-> "DISTRIBUTION", status |-> "pending"]

DistributionRecord(e, source, txHash) ==
  [txHash |-> txHash, willId |-> e.willId, owner |-> source,
   beneficiaryAddress |-> e.will.beneficiaries[e.b].address,
   amount |-> e.amount, txType |-> "DISTRIBUTION", status |-> "confirmed"]

\* tokenContract.transferFrom(fromAddr, toAddr, amount) with the custody wallet
\* as spender, or custodyWallet.sendTransaction({ to, value })
TransferOp(e, txHash) ==
  IF e.will.useStablecoin
    THEN LedgerOp(txHash, "transferFrom", e.willId, e.linkedWallets[e.w],
                  e.will.beneficiaries[e.b].address, e.amount)
    ELSE LedgerOp(txHash, "sendTransaction", e.willId, "custody",
                  e.will.beneficiaries[e.b].address, e.amount)

\* the transfer was confirmed, dailySpent was committed, and saveTransaction
\* threw into the catch (txError): a failed entry is pushed
StoreFailed(e) ==
  [e EXCEPT !.will.spendingLimits = updateDailySpent(@, e.amount),
            !.results = Append(@, FailedResult(e, e.b, e.amount, "store error")),
            !.lastCheck = NoCheck,
            !.history = Append(@,
               [op |-> "commit", amount |-> e.amount, day |-> 0,
                before |-> e.will.spendingLimits,
                after |-> updateDailySpent(e.will.spendingLimits, e.amount),
                allowed |-> TRUE])]

\* transferFrom / sendTransaction and tx.wait(): confirmed, or thrown
Transfer(c) ==
  /\ exec[c].pc = "transfer"
  /\ LET e == exec[c]
     IN  \/ /\ Continue(c, AfterTxConfirmed(e, nextHash, today))
            /\ txs' = saveTransaction(
                        DistributionRecord(e, e.linkedWallets[e.w], nextHash))
            /\ chain' = chain \cup {TransferOp(e, nextHash)}
            /\ nextHash' = nextHash + 1
         \/ /\ Continue(c, AfterTxFailure(e, today))
            /\ UNCHANGED << txs, nextHash, chain >>
  /\ UNCHANGED << linked, now, today, reply, calc >>

\* the transfer is confirmed and the INSERT of its record throws
TransferStoreFails(c) ==
  /\ exec[c].pc = "transfer"
  /\ LET e == exec[c]
     IN  /\ Continue(c, FanOut(StoreFailed(e), e.b + 1, today))
         /\ chain' = chain \cup {TransferOp(e, nextHash)}
         /\ nextHash' = nextHash + 1
  /\ UNCHANGED << linked, txs, now, today, reply, calc >>

\* -------------------------------------------------- executeWithKitepass
\* kitepassGetBalance answers, or fails
VaultBalance(c) ==
  /\ exec[c].pc = "vault"
  /\ LET e == exec[c]
     IN  \/ /\ exec' = [exec EXCEPT ![c] =
                          Fail(e, "Failed to get KitePass vault balance")]
            /\ UNCHANGED wills
         \/ \E vaultBalance \in Balances :
              IF vaultBalance = 0
                THEN Continue(c, [e EXCEPT !.pc = "finish"])
                ELSE Continue(c, VaultFanOut([e EXCEPT !.walletBalance = vaultBalance], 1))
  /\ UNCHANGED << linked, txs, now, today, nextHash, reply, calc, chain >>

\* the account a call that names no recipient credits
NoRecipient == ""

\* withdrawFunds(address token, uint256 amount), sent to the vault: the call
\* carries no recipient (_targetEoaAddress is not used)
WithdrawOp(e, txHash) ==
  LedgerOp(txHash, "withdrawFunds", e.willId, e.will.kitepassAddress, NoRecipient,
           e.amount)

\* kitepassWithdraw: success with a hash, or a failure / exception
Withdraw(c) ==
  /\ exec[c].pc = "withdraw"
  /\ LET e == exec[c]
     IN  \/ /\ Continue(c, VaultFanOut(
                    [e EXCEPT !.results =
                       Append(@, ConfirmedResult(e, e.b, e.amount, nextHash))],
                    e.b + 1))
            /\ txs' = saveTransaction(DistributionRecord(e, e.will.kitepassAddress, nextHash))
            /\ chain' = chain \cup {WithdrawOp(e, nextHash)}
            /\ nextHash' = nextHash + 1
         \/ /\ Continue(c, VaultFanOut(TxFailed(e), e.b + 1))
            /\ UNCHANGED << txs, nextHash, chain >>
  /\ UNCHANGED << linked, now, today, reply, calc >>

\* the withdrawal succeeded and the INSERT of its record throws into the
\* catch (txError)
WithdrawStoreFails(c) ==
  /\ exec[c].pc = "withdraw"
  /\ LET e == exec[c]
     IN  /\ Continue(c, VaultFanOut(
                 [e EXCEPT !.results =
                    Append(@, FailedResult(e, e.b, e.amount, "store error"))],
                 e.b + 1))
         /\ chain' = chain \cup {WithdrawOp(e, nextHash)}
         /\ nextHash' = nextHash + 1
  /\ UNCHANGED << linked, txs, now, today, reply, calc >>

\* ------------------------------------------------------------------- Next
Next ==
  \/ \E r \in AuthorizeRequests :
       StoreWillAuthorization(r.owner, r.beneficiaries, r.totalAmount, r.validUntil,
                              r.signature, r.useStablecoin, r.spendingLimits)
  \/ \E willId \in WillIds, a \in Addresses : AddLinkedWallet(willId, a)
  \/ \E willId \in WillIds, a \in Addresses : RemoveLinkedWallet(willId, a)
  \/ Midnight
  \/ \E c \in Calls, willId \in WillIds, owner \in Addresses :
       ExecuteWill(c, willId, owner, << >>)
  \/ \E c \in Calls : GasCheck(c)
  \/ \E c \in Calls : DeathDeclaration(c)
  \/ \E c \in Calls : TokenMetadata(c)
  \/ \E c \in Calls : BalanceQuery(c)
  \/ \E c \in Calls : AllowanceQuery(c)
  \/ \E c \in Calls : Transfer(c)
  \/ \E c \in Calls : VaultBalance(c)
  \/ \E c \in Calls : Withdraw(c)

Spec == Init /\ [][Next]_vars


\* =================================================================== claims
Direct(e) == e.will # NoWill /\ ~UsesKitepass(e.will)

Passed(e) == e.will # NoWill

\* the rows of table transactions written for will willId
TxsOf(willId) == { t \in txs : t.willId = willId }

\* C1: an executeWill call for a will that is not found, whose stored owner
\* differs (case-insensitively) from the claimed owner, or whose status is not
\* pending returns a failure in the same step and leaves the store and the
\* ledger as they were: no row of wills, linked_wallets or transactions
\* changes, no hash is consumed, nothing is queried or submitted.
C1_RejectedCallHasNoEffect ==
  [][ \A c \in Calls :
        (exec[c].pc = "idle" /\ exec'[c].pc # "idle") =>
          LET willId == exec'[c].willId
              stored == IF willId \in DOMAIN wills THEN wills[willId] ELSE NoWill
              bad    == \/ stored = NoWill
                        \/ toLowerCase(stored.owner) # toLowerCase(exec'[c].owner)
                        \/ stored.status # "pending"
          IN  bad =>
                /\ exec'[c].pc = "done"
                /\ ~exec'[c].success
                /\ exec'[c].error # ""
                /\ exec'[c].results = << >>
                /\ exec'[c].submitted = {}
                /\ exec'[c].queried = {}
                /\ exec'[c].deathTxHash = 0
                /\ wills' = wills /\ linked' = linked /\ txs' = txs
                /\ nextHash' = nextHash ]_vars

\* C1 witness: a second call on a will that a first call executed (with a
\* confirmed distribution on record) has been rejected
C1_Witness ==
  \E c \in Calls :
    /\ exec[c].pc = "done"
    /\ exec[c].error = "Will already executed"
    /\ exec[c].willId \in DOMAIN wills
    /\ wills[exec[c].willId].status = "executed"
    /\ \E t \in TxsOf(exec[c].willId) : t.txType = "DISTRIBUTION"

\* C2: the only status change ever made to a stored will is pending ->
\* executed, no row disappears, and a row whose status is executed is never
\* written again (a later re-authorization of its owner leaves it as it is).
C2_StatusMonotonic ==
  [][ \A i \in DOMAIN wills :
        /\ i \in DOMAIN wills'
        /\ wills[i].status = "executed" => wills'[i] = wills[i]
        /\ wills'[i].status # wills[i].status =>
             wills[i].status = "pending" /\ wills'[i].status = "executed" ]_vars

\* C2 witness: the owner of an executed will has re-authorized, which created
\* a second, pending will beside the executed one
C2_Witness ==
  \E i, j \in DOMAIN wills :
    /\ wills[i].status = "executed"
    /\ wills[j].status = "pending"
    /\ toLowerCase(wills[i].owner) = toLowerCase(wills[j].owner)
    /\ wills[j].createdAt > wills[i].createdAt


StoredStatus(willId) == wills[willId].status

ResultsWith(e, status) == { i \in DOMAIN e.results : e.results[i].status = status }

FatalAfterValidation ==
  { "gas balance query failed", "Custody wallet has insufficient gas",
    "token metadata query failed", "Failed to get KitePass vault balance" }

C4_LimitsBoundSubmittedTransfers ==
  \A c \in Calls :
    LET e == exec[c]
        l == e.will.spendingLimits
    IN  Direct(e) =>
          /\ \A s \in e.submitted : s.amount <= l.perTxLimit
          /\ e.pc = "transfer" =>
               e.amount <= l.perTxLimit /\ l.dailySpent + e.amount <= l.dailyLimit
          /\ (\E i \in DOMAIN e.history : e.history[i].op = "commit") =>
               l.dailySpent <= l.dailyLimit
          /\ \A i \in ResultsWith(e, "failed") :
               e.results[i].error \in {"Exceeds per-transaction limit", "Exceeds daily limit"}
                 => ~\E s \in e.submitted :
                       s.wallet = e.results[i].wallet /\
                       e.will.beneficiaries[s.b].name = e.results[i].beneficiary

\* C4 witness: a commit has brought dailySpent exactly to dailyLimit, and both
\* kinds of rejection have happened
C4_Witness ==
  \E c \in Calls :
    LET e == exec[c]
    IN  /\ Direct(e)
        /\ e.will.spendingLimits.dailySpent = e.will.spendingLimits.dailyLimit
        /\ ResultsWith(e, "confirmed") # {}
        /\ \E i \in ResultsWith(e, "failed") : e.results[i].error = "Exceeds daily limit"

\* C5 (as claimed): in both execution modes every transfer or withdrawal that
\* is submitted was preceded, immediately, by a limiter check of that amount
\* that answered allowed.
C5_EverySubmissionWasChecked ==
  \A c \in Calls :
    \A s \in exec[c].submitted :
      s.check = [amount |-> s.amount, allowed |-> TRUE]


\* the limits after the last entry of the history are the working copy's
HistoryIsContinuous(e) ==
  /\ \A i \in DOMAIN e.history : i > 1 => e.history[i].before = e.history[i - 1].after
  /\ e.history # << >> => e.history[Len(e.history)].after = e.will.spendingLimits

Rejected(h) == h.op = "check" /\ ~h.allowed

\* C6 (as claimed): a commit adds exactly the amount, and a limiter rejection or
\* a failed transfer leaves dailySpent as it was.
C6_RejectionLeavesDailySpent ==
  \A c \in Calls :
    \A i \in DOMAIN exec[c].history :
      LET h == exec[c].history[i]
      IN  /\ h.op = "commit" => h.after.dailySpent = h.before.dailySpent + h.amount
          /\ (h.op = "fail" \/ Rejected(h)) => h.after.dailySpent = h.before.dailySpent

\* C6 (amended): dailySpent grows only by a commit, by exactly the amount of
\* the transfer just confirmed, which the limiter had allowed right before; a
\* failed transfer leaves the limits as they were; a limiter check, allowed or
\* rejected, leaves dailySpent as it was unless it ran on a new calendar date,
\* when it leaves it at zero; the amounts committed are the amounts of the
\* confirmed results, in order; and a rejected amount is followed by no
\* transfer at all, the next operation being the next check.
C6_DailySpentGrowsOnlyByCommits ==
  \A c \in Calls :
    LET e == exec[c]
        commits == SelectSeq(e.history, LAMBDA h : h.op = "commit")
        confirmed == SelectSeq(e.results, LAMBDA r : r.status = "confirmed")
    IN  Direct(e) =>
          /\ HistoryIsContinuous(e)
          /\ Len(commits) = Len(confirmed)
          /\ \A k \in DOMAIN commits : commits[k].amount = confirmed[k].amount
          /\ \A i \in DOMAIN e.history :
               LET h == e.history[i]
               IN  /\ h.op = "commit" =>
                        /\ h.after = [h.before EXCEPT !.dailySpent = @ + h.amount]
                        /\ i > 1 /\ e.history[i - 1].op = "check"
                        /\ e.history[i - 1].allowed
                        /\ e.history[i - 1].amount = h.amount
                   /\ h.op = "fail" => h.after = h.before
                   /\ h.op = "check" =>
                        h.after.dailySpent =
                          IF h.before.lastResetDate # h.day THEN 0
                          ELSE h.before.dailySpent
                   /\ (Rejected(h) /\ i < Len(e.history)) => e.history[i + 1].op = "check"

\* C6 witness: two transfers a and b were committed on one day, dailySpent is
\* a + b, and the next amount, which would exceed dailyLimit, was rejected
C6_Witness ==
  \E c \in Calls :
    LET e == exec[c]
    IN  /\ Direct(e)
        /\ \E i, j, k \in DOMAIN e.history :
             /\ i < j /\ j < k
             /\ e.history[i].op = "commit" /\ e.history[j].op = "commit"
             /\ Rejected(e.history[k])
             /\ e.history[k].after.lastResetDate = e.history[i].after.lastResetDate
             /\ e.history[k].after.dailySpent = e.history[i].amount + e.history[j].amount
             /\ e.history[k].after.dailySpent + e.history[k].amount
                  > e.history[k].after.dailyLimit

\* C7: a limiter check on a date other than lastResetDate first sets
\* dailySpent to zero and lastResetDate to that date, whatever dailySpent was,
\* and compares the amount against the caps with the zeroed value; a check on
\* the date of lastResetDate leaves both untouched; and what the check left
\* (the reset included) is what the next operation finds, also when the check
\* rejected the amount.
C7_LazyDateReset ==
  \A c \in Calls :
    LET e == exec[c]
    IN  /\ HistoryIsContinuous(e)
        /\ \A i \in DOMAIN e.history :
             LET h == e.history[i]
             IN  h.op = "check" =>
                   /\ h.after = IF h.before.lastResetDate # h.day
                                  THEN [h.before EXCEPT !.dailySpent = 0,
                                                        !.lastResetDate = h.day]
                                  ELSE h.before
                   /\ h.allowed <=> /\ h.amount <= h.after.perTxLimit
                                    /\ h.after.dailySpent + h.amount <= h.after.dailyLimit

\* C7 witness: a check on a new date has zeroed a non-zero dailySpent and
\* then rejected the amount, and the next operation found the reset limits
C7_Witness ==
  \E c \in Calls :
    LET e == exec[c]
    IN  \E i \in DOMAIN e.history :
          LET h == e.history[i]
          IN  /\ Rejected(h)
              /\ h.before.lastResetDate # h.day
              /\ h.before.dailySpent > 0
              /\ h.after.dailySpent = 0 /\ h.after.lastResetDate = h.day
              /\ i < Len(e.history) /\ e.history[i + 1].before = h.after

WalletSkipped(e, w) ==
  \E l \in e.log : l[2] = w /\ l[1] \in {"wallet failed", "zero balance", "zero allowance"}

ZeroAmount(e, w, b) == << "zero amount", w, b >> \in e.log

ResultsFor(e, w, b) ==
  { i \in DOMAIN e.results :
      e.results[i].wallet = w /\ e.results[i].beneficiary = e.will.beneficiaries[b].name }

\* C8: when a direct-transfer execution has returned, every linked wallet had
\* its balance queried, whatever failed before it; every beneficiary of a
\* wallet whose queries answered a non-zero value was processed (it has a
\* result, or its amount was zero), whatever was rejected or failed before it;
\* and with N wallets, M beneficiaries, nothing skipped, no limiter rejection
\* and exactly one failed transfer the results are N*M - 1 confirmed entries
\* and one failed entry.
C8_FailuresAreIsolated ==
  \A c \in Calls :
    LET e == exec[c]
        N == Len(e.linkedWallets)
        M == Len(e.will.beneficiaries)
        failed == ResultsWith(e, "failed")
    IN  (e.pc = "done" /\ e.success /\ Direct(e)) =>
          /\ \A w \in 1 .. N : e.linkedWallets[w] \in e.queried
          /\ \A w \in 1 .. N : ~WalletSkipped(e, w) =>
               \A b \in 1 .. M : ResultsFor(e, w, b) # {} \/ ZeroAmount(e, w, b)
          /\ ( /\ e.log = {}
               /\ Cardinality(failed) = 1
               /\ \A i \in failed : e.results[i].error = "tx error" )
             => /\ Cardinality(ResultsWith(e, "confirmed")) = N * M - 1
                /\ Len(e.results) = N * M

\* C8 witness: two wallets, two beneficiaries, one failed transfer, which was
\* not the last pair, and three confirmed ones
C8_Witness ==
  \E c \in Calls :
    LET e == exec[c]
    IN  /\ e.pc = "done" /\ e.success /\ Direct(e)
        /\ Len(e.linkedWallets) = 2 /\ Len(e.will.beneficiaries) = 2
        /\ e.log = {}
        /\ Len(e.results) = 4
        /\ e.results[1].status = "failed" /\ e.results[1].error = "tx error"
        /\ Cardinality(ResultsWith(e, "confirmed")) = 3

\* C9 (as claimed): every (linked wallet, beneficiary) pair of a returned
\* direct-transfer execution has an entry in the result list, confirmed, or
\* failed with a reason.
C9_EveryPairHasResult ==
  \A c \in Calls :
    LET e == exec[c]
    IN  (e.pc = "done" /\ e.success /\ Direct(e)) =>
          \A w \in 1 .. Len(e.linkedWallets), b \in 1 .. Len(e.will.beneficiaries) :
            \E i \in ResultsFor(e, w, b) :
              e.results[i].status = "failed" => e.results[i].error # ""

\* C9 (amended): every (linked wallet, beneficiary) pair of a returned
\* direct-transfer execution has exactly one entry in the result list,
\* confirmed, or failed with a reason, for its non-zero amount, unless the
\* wallet was skipped (its balance or allowance query threw or answered zero)
\* or the pair's computed amount is zero; those pairs have no entry, only a
\* line in the log.
C9_EveryPairHasResultOrWasSkipped ==
  \A c \in Calls :
    LET e == exec[c]
    IN  (e.pc = "done" /\ e.success /\ Direct(e)) =>
          \A w \in 1 .. Len(e.linkedWallets), b \in 1 .. Len(e.will.beneficiaries) :
            /\ (WalletSkipped(e, w) \/ ZeroAmount(e, w, b)) <=> ResultsFor(e, w, b) = {}
            /\ Cardinality(ResultsFor(e, w, b)) <= 1
            /\ \A i \in ResultsFor(e, w, b) :
                 /\ e.results[i].amount > 0
                 /\ e.results[i].status \in {"confirmed", "failed"}
                 /\ e.results[i].status = "failed" => e.results[i].error # ""

\* C9 witness: a returned execution over two wallets, one skipped and one
\* with a confirmed, a rejected or a failed entry for each beneficiary
C9_Witness ==
  \E c \in Calls :
    LET e == exec[c]
    IN  /\ e.pc = "done" /\ e.success /\ Direct(e)
        /\ Len(e.linkedWallets) = 2 /\ Len(e.will.beneficiaries) = 2
        /\ WalletSkipped(e, 1)
        /\ ResultsWith(e, "confirmed") # {}
        /\ \E i \in ResultsWith(e, "failed") : e.results[i].error = "tx error"

\* C10 (as claimed): no wallet whose link was removed when the execution read
\* the linked wallets has its balance queried or is the source of a transfer.
C10_RemovedWalletNeverUsed ==
  \A c \in Calls :
    LET e == exec[c]
    IN  /\ \A a \in e.queried : toLowerCase(a) \notin e.removedAtLoad
        /\ \A s \in e.submitted :
             s.kind = "transfer" =>
               toLowerCase(e.linkedWallets[s.wallet]) \notin e.removedAtLoad


\* ------------------------------------------------- a store with an executed will
\* The row that storeWillAuthorization wrote for owner "a" and that an
\* execution finding no balance has set to executed, in a database file
\* written before the server was started (stamp 0).
ExecutedWill ==
  [willId |-> 1, owner |-> "a", beneficiaries |-> B100,
   totalAmount |-> 1000, validUntil |-> 1, createdAt |-> 0,
   status |-> "executed", useStablecoin |-> TRUE,
   spendingLimits |-> DEFAULT_SPENDING_LIMITS,
   useKitepass |-> FALSE, kitepassAddress |-> ""]

InitAfterExecution ==
  /\ \/ /\ wills = << ExecutedWill >>
        /\ linked = {[willId |-> 1, address |-> "a", approvedAt |-> 0,
                      status |-> "approved"]}
        /\ now = 0
     \/ /\ wills = << VaultWill(B6040) >>
        /\ linked = {[willId |-> 1, address |-> "a", approvedAt |-> 1,
                      status |-> "approved"]}
        /\ now = 1
  /\ txs = {}
  /\ today = 1
  /\ nextHash = 1
  /\ exec = [c \in Calls |-> IdleExec]
  /\ reply = NoReply
  /\ calc = NoCalc
  /\ chain = {}

SpecAfterExecution == InitAfterExecution /\ [][Next]_vars

\* ------------------------------------------- a store with two pending wills
\* A list an adjusted distribution puts in the place of the stored one
BOverride == << Ben("z", "Z", 5000), Ben("x", "X", 2500), Ben("y", "Y", 2500) >>

\* what the body of POST /api/will/execute may carry as overrideBeneficiaries
Overrides == { << >>, BOverride }

\* the signed bounds a stored authorization may carry: a date that has passed
\* or not, a total below or above what the wallets hold
ValidUntils == {0, 2}

TotalAmounts == {1, 2000}

\* The row storeWillAuthorization wrote for owner "b", with caps of 10.00
DirectWill(useStablecoin, totalAmount, validUntil) ==
  [willId |-> 2, owner |-> "b", beneficiaries |-> B6040,
   totalAmount |-> totalAmount, validUntil |-> validUntil, createdAt |-> 2,
   status |-> "pending", useStablecoin |-> useStablecoin,
   spendingLimits |-> [DEFAULT_SPENDING_LIMITS EXCEPT !.perTxLimit = 1000,
                                                      !.dailyLimit = 1000],
   useKitepass |-> FALSE, kitepassAddress |-> ""]

\* The database file holds the vault will of "a" and a will of "b"; no request
\* has been served yet.
InitExecution ==
  /\ \E useStablecoin \in BOOLEAN, totalAmount \in TotalAmounts,
        validUntil \in ValidUntils :
       wills = << VaultWill(B6040),
                  DirectWill(useStablecoin, totalAmount, validUntil) >>
  /\ linked = {[willId |-> 1, address |-> "a", approvedAt |-> 1, status |-> "approved"],
               [willId |-> 2, address |-> "b", approvedAt |-> 2, status |-> "approved"]}
  /\ now = 2
  /\ txs = {}
  /\ today = 1
  /\ nextHash = 1
  /\ exec = [c \in Calls |-> IdleExec]
  /\ reply = NoReply
  /\ calc = NoCalc
  /\ chain = {}

\* POST /api/will/execute, with or without overrideBeneficiaries, served by a
\* store whose INSERT may fail
NextExecution ==
  \/ \E c \in Calls, willId \in WillIds, owner \in Addresses,
        overrideBeneficiaries \in Overrides :
       ExecuteWill(c, willId, owner, overrideBeneficiaries)
  \/ \E c \in Calls : GasCheck(c)
  \/ \E c \in Calls : DeathDeclaration(c)
  \/ \E c \in Calls : TokenMetadata(c)
  \/ \E c \in Calls : BalanceQuery(c)
  \/ \E c \in Calls : AllowanceQuery(c)
  \/ \E c \in Calls : Transfer(c)
  \/ \E c \in Calls : TransferStoreFails(c)
  \/ \E c \in Calls : VaultBalance(c)
  \/ \E c \in Calls : Withdraw(c)
  \/ \E c \in Calls : WithdrawStoreFails(c)

SpecExecution == InitExecution /\ [][NextExecution]_vars

\* --------------------------------------------- interleaved invocations
\* The store of InitExecution with the will of "b" in the native asset.
InitConcurrent ==
  /\ InitExecution
  /\ wills[2] = DirectWill(FALSE, 2000, 2)

\* Invocations for the will of "b" whose awaits resolve in any order: an
\* invocation may enter while another waits for the ledger.
NextConcurrent ==
  \/ \E c \in Calls : Entry(c, 2, "b", << >>)
  \/ \E c \in Calls : GasCheck(c)
  \/ \E c \in Calls : DeathDeclaration(c)
  \/ \E c \in Calls : BalanceQuery(c)
  \/ \E c \in Calls : Transfer(c)

SpecConcurrent == InitConcurrent /\ [][NextConcurrent]_vars

SameOwner(i, j) == toLowerCase(wills[i].owner) = toLowerCase(wills[j].owner)

\* C11 (as claimed): at most one stored will per owner, the addresses compared
\* case-insensitively, has status pending.
C11_OnePendingWillPerOwner ==
  \A i, j \in DOMAIN wills :
    (i # j /\ SameOwner(i, j) /\ wills[i].status = "pending")
      => wills[j].status # "pending"

\* the request's signature is one that recovery turns into the request's owner
SignedByOwner(r) ==
  r.signature # "malformed" /\ toLowerCase(r.signature) = toLowerCase(r.owner)

Handles(r) ==
  StoreWillAuthorization(r.owner, r.beneficiaries, r.totalAmount, r.validUntil,
                         r.signature, r.useStablecoin, r.spendingLimits)

\* C12: a storeWillAuthorization call whose signature recovers to another
\* address than the owner, or is malformed so that recovery throws, returns
\* { success: false, error: 'Invalid signature' } and leaves wills,
\* linked_wallets and transactions as they were; and a call returns success
\* only for a request signed by its owner.
C12_InvalidSignatureStoresNothing ==
  [][ /\ \A r \in AuthorizeRequests :
           (~SignedByOwner(r) /\ Handles(r)) =>
             /\ ~reply'.success
             /\ reply'.error = "Invalid signature"
             /\ wills' = wills /\ linked' = linked /\ txs' = txs /\ now' = now
      /\ (reply' # reply /\ reply'.success) =>
           \E r \in AuthorizeRequests : SignedByOwner(r) /\ Handles(r) ]_vars

\* C12 witness: a request with an invalid signature was answered with the
\* failure while the store held a pending will
C12_Witness ==
  /\ reply = [success |-> FALSE, willId |-> 0, error |-> "Invalid signature"]
  /\ \E i \in DOMAIN wills : wills[i].status = "pending"

RECURSIVE SumOfPercentages(_)
SumOfPercentages(beneficiaries) ==
  IF beneficiaries = << >> THEN 0
  ELSE Head(beneficiaries).percentage + SumOfPercentages(Tail(beneficiaries))

\* C13 (as claimed): every will in the store has a beneficiary list whose
\* percentages sum to exactly 100 (10000 hundredths of a percent).
C13_StoredPercentagesSumTo100 ==
  \A i \in DOMAIN wills : SumOfPercentages(wills[i].beneficiaries) = 10000


\* ============================================== the signed message's encoding
\* A JSON value of the request body: a string or a number.
Str(s) == [type |-> "string", s |-> s, n |-> 0]

Num(n) == [type |-> "number", s |-> "", n |-> n]

\* the orders in which a client may have written the keys of an entry
KeyOrders ==
  { << "address", "name", "percentage" >>,
    << "percentage", "name", "address" >>,
    << "name", "address", "percentage" >> }

\* An object of the request body: its properties in insertion order.
Object(order, values) == [i \in 1 .. 3 |-> << order[i], values[order[i]] >>]

\* the beneficiary entries a request may hold: x with 60, y with 40, the
\* percentage sent as a number or as a numeric string
EntryValues ==
  { [address |-> Str("x"), name |-> Str("X"), percentage |-> Num(60)],
    [address |-> Str("x"), name |-> Str("X"), percentage |-> Str("60")],
    [address |-> Str("y"), name |-> Str("Y"), percentage |-> Num(40)],
    [address |-> Str("y"), name |-> Str("Y"), percentage |-> Str("40")] }

Entries == { Object(order, values) : order \in KeyOrders, values \in EntryValues }

EntryLists == { << e >> : e \in Entries } \cup { << e, f >> : e \in Entries, f \in Entries }

\* b.key
Get(object, key) == object[CHOOSE i \in 1 .. 3 : object[i][1] = key][2]

\* Number(v) of the numeric strings and numbers above
Number(v) ==
  IF v.type = "number" THEN v
  ELSE IF v.s = "60" THEN Num(60) ELSE Num(40)

\* beneficiaries.map(b => ({ address: b.address, name: b.name,
\*                           percentage: Number(b.percentage) }))
canonicalBeneficiaries(beneficiaries) ==
  [i \in DOMAIN beneficiaries |->
     << << "address", Get(beneficiaries[i], "address") >>,
        << "name", Get(beneficiaries[i], "name") >>,
        << "percentage", Number(Get(beneficiaries[i], "percentage")) >> >>]

\* JSON.stringify of a string or a number, as a sequence of tokens
StringifyValue(v) ==
  IF v.type = "number" THEN << ToString(v.n) >> ELSE << "\"", v.s, "\"" >>

\* JSON.stringify of an object: its properties in insertion order
StringifyObject(object) ==
  << "{" >>
  \o << "\"", object[1][1], "\"", ":" >> \o StringifyValue(object[1][2]) \o << "," >>
  \o << "\"", object[2][1], "\"", ":" >> \o StringifyValue(object[2][2]) \o << "," >>
  \o << "\"", object[3][1], "\"", ":" >> \o StringifyValue(object[3][2])
  \o << "}" >>

\* JSON.stringify of an array of objects: its elements in array order
RECURSIVE StringifyElements(_)
StringifyElements(array) ==
  IF array = << >> THEN << >>
  ELSE StringifyObject(Head(array))
       \o (IF Len(array) > 1 THEN << "," >> ELSE << >>)
       \o StringifyElements(Tail(array))

JSONstringify(array) == << "[" >> \o StringifyElements(array) \o << "]" >>

\* the array order given up: the elements written by ascending address
beneficiariesStr_sorted(beneficiaries) ==
  LET c == canonicalBeneficiaries(beneficiaries)
  IN  JSONstringify(
        IF Len(c) = 2 /\ c[1][1][2].s = "y" /\ c[2][1][2].s = "x"
          THEN << c[2], c[1] >> ELSE c)

\* message.beneficiaries, the string that is signed and verified
beneficiariesStr(beneficiaries) == JSONstringify(canonicalBeneficiaries(beneficiaries))

\* the store of a server that has served no request
QuietStore ==
  /\ wills = << >> /\ linked = {} /\ txs = {} /\ now = 0 /\ today = 1
  /\ nextHash = 1 /\ exec = [c \in Calls |-> IdleExec] /\ reply = NoReply
  /\ chain = {}

InitEncoding ==
  /\ QuietStore
  /\ \E first \in EntryLists, second \in EntryLists :
       calc = [fn |-> "beneficiariesStr", lists |-> << first, second >>,
               strings |-> << >>]

\* the client signs one list and the server verifies another
EncodeBoth ==
  /\ calc.fn = "beneficiariesStr" /\ calc.strings = << >>
  /\ calc' = [calc EXCEPT !.strings = << beneficiariesStr(calc.lists[1]),
                                         beneficiariesStr(calc.lists[2]) >>]
  /\ UNCHANGED << wills, linked, txs, now, today, nextHash, exec, reply, chain >>

SpecEncoding == InitEncoding /\ [][EncodeBoth]_vars


\* what an entry says, whatever the order of its keys and the type of its percentage
Triple(object) ==
  << Get(object, "address").s, Get(object, "name").s,
     Number(Get(object, "percentage")).n >>

Triples(list) == [i \in DOMAIN list |-> Triple(list[i])]

\* the two lists hold the same entries, possibly in another order
IsPermutation(first, second) ==
  /\ Len(first) = Len(second)
  /\ \E f \in [DOMAIN first -> DOMAIN second] :
       /\ \A i, j \in DOMAIN first : i # j => f[i] # f[j]
       /\ \A i \in DOMAIN first : Triple(first[i]) = Triple(second[f[i]])

\* the entry written with its keys in the order address, name, percentage
InKeyOrder(triple) ==
  Object(<< "address", "name", "percentage" >>,
         [address |-> Str(triple[1]), name |-> Str(triple[2]),
          percentage |-> Num(triple[3])])

Encoded == calc.fn = "beneficiariesStr" /\ calc.strings # << >>

\* C14 (as claimed): two lists holding the same beneficiaries in a different
\* order produce the same signed-message encoding.
C14_PermutationsEncodeAlike ==
  Encoded =>
    (IsPermutation(calc.lists[1], calc.lists[2]) => calc.strings[1] = calc.strings[2])

\* C14 (amended): the encoding of a list writes the entries in the order of
\* the list, each with its keys in the order address, name, percentage and
\* its percentage as a number; so two lists produce the same encoding exactly
\* when they hold the same entries at the same positions, in whatever order
\* the keys of the entries were written, and two different orders of distinct
\* entries produce different encodings.
C14_KeyOrderDoesNotMatter ==
  Encoded =>
    /\ \A k \in 1 .. 2 :
         calc.strings[k] =
           JSONstringify([i \in DOMAIN calc.lists[k] |->
                            InKeyOrder(Triple(calc.lists[k][i]))])
    /\ (Triples(calc.lists[1]) = Triples(calc.lists[2]))
         <=> (calc.strings[1] = calc.strings[2])

\* C14 witness: two lists of two entries, the same entries at the same
\* positions, written with different key orders and with the percentage once
\* as a string, have been encoded to the same string
C14_Witness ==
  /\ Encoded
  /\ Len(calc.lists[1]) = 2
  /\ Triples(calc.lists[1]) = Triples(calc.lists[2])
  /\ Triple(calc.lists[1][1]) # Triple(calc.lists[1][2])
  /\ calc.lists[1][1][1][1] # calc.lists[2][1][1][1]
  /\ Get(calc.lists[1][2], "percentage").type # Get(calc.lists[2][2], "percentage").type
  /\ calc.strings[1] = calc.strings[2]


\* ======================================================= the amount formula
\* percentages in hundredths of a percent: 36.3, 33.33, and values on both
\* sides of a tie of the rounding to a tenth
Percentages ==
  { 0, 4, 5, 14, 15, 3330, 3333, 3335, 3337, 3630, 4000, 6000, 9995, 10000 }

InitAmount ==
  /\ QuietStore
  /\ \E mode \in {"direct", "vault"}, balance \in 0 .. MaxBalance,
        percentage \in Percentages :
       calc = [fn |-> "amount", mode |-> mode, balance |-> balance,
               percentage |-> percentage, amount |-> -1]

\* executeWill: the amount of one beneficiary of a linked wallet
DirectAmount ==
  /\ calc.fn = "amount" /\ calc.mode = "direct" /\ calc.amount = -1
  /\ calc' = [calc EXCEPT !.amount = Amount(calc.balance, calc.percentage)]
  /\ UNCHANGED << wills, linked, txs, now, today, nextHash, exec, reply, chain >>

\* executeWithKitepass: the amount of one beneficiary of the vault
VaultAmount ==
  /\ calc.fn = "amount" /\ calc.mode = "vault" /\ calc.amount = -1
  /\ calc' = [calc EXCEPT !.amount = Amount(calc.balance, calc.percentage)]
  /\ UNCHANGED << wills, linked, txs, now, today, nextHash, exec, reply, chain >>

NextAmount == DirectAmount \/ VaultAmount

SpecAmount == InitAmount /\ [][NextAmount]_vars

\* the integer nearest to percentage * 10 (given in hundredths: percentage / 10),
\* a tie going up
NearestTenth(percentage) ==
  CHOOSE r \in 0 .. 1001 : 10 * r - 5 <= percentage /\ percentage < 10 * r + 5

\* floor(balance * r / 1000)
FloorOfThousandth(balance, r) ==
  CHOOSE a \in 0 .. 2 * MaxBalance + 2 :
    a * 1000 <= balance * r /\ balance * r < (a + 1) * 1000

Computed == calc.fn = "amount" /\ calc.amount # -1

\* C15: in both execution modes the amount computed for a balance and a
\* percentage is floor(balance * round(percentage * 10) / 1000), the rounding
\* being to the nearest tenth of a percent and not a truncation: balance 1000
\* gives 363 for 36.3, 333 for 33.33 and 334 for 33.37.
C15_AmountIsFloorOfRoundedShare ==
  Computed =>
    /\ calc.amount = FloorOfThousandth(calc.balance, NearestTenth(calc.percentage))
    /\ (calc.balance = 1000 /\ calc.percentage = 3630) => calc.amount = 363
    /\ (calc.balance = 1000 /\ calc.percentage = 3333) => calc.amount = 333
    /\ (calc.balance = 1000 /\ calc.percentage = 3337) => calc.amount = 334

\* C15 witness: the vault mode has computed 334 for balance 1000 and 33.37,
\* where a truncation to a tenth would give 333
C15_Witness ==
  /\ Computed /\ calc.mode = "vault"
  /\ calc.balance = 1000 /\ calc.percentage = 3337 /\ calc.amount = 334


\* ============================================ calculateWeightedDistribution
\* Percentages are integers in tenths of a percent (33.3% = 333), the
\* precision to which the function rounds every share.
WillShare(name, percentage) == [name |-> name, percentage |-> percentage]

\* willBeneficiaries: none, one, two, two with zero shares
WillLists ==
  { << >>,
    << WillShare("ann", 1000) >>,
    << WillShare("ann", 600), WillShare("bob", 400) >>,
    << WillShare("ann", 333), WillShare("bob", 667) >>,
    << WillShare("ann", 0), WillShare("bob", 0) >> }

Intent(name, percentage, action) ==
  [name |-> name, percentage |-> percentage, action |-> action]

\* what quantifySocialIntents may return as an element: additions of new
\* names (100% and 200%), of a name a will name contains, of a name that
\* contains a will name; removals; an adjustment
SocialIntents ==
  { Intent("cy", 1000, "ADD"), Intent("cy", 2000, "ADD"), Intent("di", 2000, "ADD"),
    Intent("ann", 1000, "ADD"), Intent("anna", 500, "ADD"),
    Intent("anna", 0, "REMOVE"), Intent("bob", 0, "REMOVE"),
    Intent("cy", 500, "ADJUST") }

RECURSIVE ListsUpTo(_, _)
ListsUpTo(S, n) ==
  IF n = 0 THEN { << >> }
  ELSE LET shorter == ListsUpTo(S, n - 1)
       IN  shorter \cup { Append(l, x) : l \in { m \in shorter : Len(m) = n - 1 }, x \in S }

SocialLists == ListsUpTo(SocialIntents, MaxSocial)

\* a.toLowerCase().includes(b.toLowerCase()) on the names above
NameIncludes(a, b) == a = b \/ (a = "anna" /\ b = "ann")

\* socialBeneficiaries.find(sb => sb.action === 'REMOVE' && sb.name includes wb.name)
Excluded(wb, social) ==
  \E i \in DOMAIN social :
    social[i].action = "REMOVE" /\ NameIncludes(social[i].name, wb.name)

\* Math.round(x * 10) / 10 of x = percentage * tenthsOf / 10, in tenths
RoundToTenth(percentage, tenthsOf) == (percentage * tenthsOf + 5) \div 10

\* 3.1: wb.percentage * willWeight, halved again under an exclusion signal
AdjustWill(wb, social) ==
  [name |-> wb.name, source |-> "WILL", original |-> wb.percentage,
   percentage |-> IF Excluded(wb, social) THEN RoundToTenth(wb.percentage, 4)
                  ELSE RoundToTenth(wb.percentage, 8)]

\* sb.action === 'ADD' && !willBeneficiaries.some(wb => wb.name includes sb.name)
IsNewFromSocial(sb, will) ==
  /\ sb.action = "ADD"
  /\ ~\E i \in DOMAIN will : NameIncludes(will[i].name, sb.name)

Min(a, b) == IF a < b THEN a ELSE b

\* 3.2: Math.min(sb.percentage * socialWeight, 30), rounded to a tenth
AddSocial(sb) ==
  [name |-> sb.name, source |-> "SOCIAL", original |-> 0,
   percentage |-> Min(RoundToTenth(sb.percentage, 2), 300)]

\* adjustedBeneficiaries before the normalisation
Blend(will, social) ==
  [i \in DOMAIN will |-> AdjustWill(will[i], social)]
  \o [i \in 1 .. Len(SelectSeq(social, LAMBDA sb : IsNewFromSocial(sb, will))) |->
        AddSocial(SelectSeq(social, LAMBDA sb : IsNewFromSocial(sb, will))[i])]

RECURSIVE Total(_)
Total(beneficiaries) ==
  IF beneficiaries = << >> THEN 0
  ELSE Head(beneficiaries).percentage + Total(Tail(beneficiaries))


\* The shares whose exact quotient b.percentage * factor * 10 is a whole
\* number: there the double product may fall just below it, and Math.floor
\* then gives one tenth less.
Divisible(beneficiaries, total) ==
  { i \in DOMAIN beneficiaries :
      /\ beneficiaries[i].percentage > 0
      /\ (beneficiaries[i].percentage * 1000) % total = 0 }

\* b.percentage = Math.floor(b.percentage * factor * 10) / 10, factor = 100 / total
Floored(beneficiaries, total, low) ==
  [i \in DOMAIN beneficiaries |->
     [beneficiaries[i] EXCEPT !.percentage =
        ((@ * 1000) \div total) - (IF i \in low THEN 1 ELSE 0)]]

\* reduce((maxI, b, i, arr) => b.percentage > arr[maxI].percentage ? i : maxI, 0)
MaxIdx(beneficiaries) ==
  CHOOSE i \in DOMAIN beneficiaries :
    /\ \A j \in DOMAIN beneficiaries :
         beneficiaries[j].percentage <= beneficiaries[i].percentage
    /\ \A j \in 1 .. i - 1 :
         beneficiaries[j].percentage < beneficiaries[i].percentage

\* the difference to 100 given to nobody
AddDiff_dropped(beneficiaries) == beneficiaries

\* diff = 100 - newTotal, added to the largest share
AddDiff(beneficiaries) ==
  LET diff == 1000 - Total(beneficiaries)
  IN  IF diff # 0 /\ Len(beneficiaries) > 0
        THEN [beneficiaries EXCEPT ![MaxIdx(beneficiaries)].percentage = @ + diff]
        ELSE beneficiaries

normalizeToHundred(beneficiaries, low) ==
  IF Total(beneficiaries) = 0 THEN beneficiaries
  ELSE AddDiff(Floored(beneficiaries, Total(beneficiaries), low))

InitWeighted ==
  /\ QuietStore
  /\ \E will \in WillLists :
       calc = [fn |-> "calculateWeightedDistribution", stage |-> "quantify",
               will |-> will, social |-> << >>, blended |-> << >>,
               adjusted |-> << >>]

\* await quantifySocialIntents(...): the intents, or [] when the call failed
QuantifySocialIntents ==
  /\ calc.fn = "calculateWeightedDistribution" /\ calc.stage = "quantify"
  /\ \E social \in SocialLists :
       calc' = [calc EXCEPT !.stage = "blend", !.social = social]
  /\ UNCHANGED << wills, linked, txs, now, today, nextHash, exec, reply, chain >>

\* steps 3 and 4: the blend and its normalisation
WeightedDistribution ==
  /\ calc.fn = "calculateWeightedDistribution" /\ calc.stage = "blend"
  /\ LET blended == Blend(calc.will, calc.social)
     IN  \E low \in SUBSET Divisible(blended, Total(blended)) :
           calc' = [calc EXCEPT !.stage = "done", !.blended = blended,
                                !.adjusted = normalizeToHundred(blended, low)]
  /\ UNCHANGED << wills, linked, txs, now, today, nextHash, exec, reply, chain >>

NextWeighted == QuantifySocialIntents \/ WeightedDistribution

SpecWeighted == InitWeighted /\ [][NextWeighted]_vars


Distributed == calc.fn = "calculateWeightedDistribution" /\ calc.stage = "done"

\* C16 (as claimed): for every input, an empty will list and one of zero
\* shares included, the returned percentages sum to exactly 100.0.
C16_AlwaysSumsTo100 ==
  Distributed => Total(calc.adjusted) = 1000

\* C16 (amended): when the blended shares (the will shares scaled, the social
\* additions capped) have a positive total, the returned percentages sum to
\* exactly 100.0, every one of them non-negative and the list keeping its
\* entries and their order; when there is no share, or every blended share
\* is zero, the list is returned as it is and sums to 0.
C16_SumsTo100UnlessNothingToShare ==
  Distributed =>
    /\ Len(calc.adjusted) = Len(calc.blended)
    /\ \A i \in DOMAIN calc.adjusted :
         /\ calc.adjusted[i].name = calc.blended[i].name
         /\ calc.adjusted[i].percentage >= 0
    /\ IF Total(calc.blended) = 0
         THEN calc.adjusted = calc.blended
         ELSE Total(calc.adjusted) = 1000

\* C16 witness: three or more shares that did not sum to 100 were scaled,
\* the floors left a difference, and the largest share took it
C16_Witness ==
  /\ Distributed
  /\ Len(calc.adjusted) >= 3
  /\ Total(calc.blended) \notin {0, 1000}
  /\ Total(calc.adjusted) = 1000
  /\ \E i \in DOMAIN calc.adjusted :
       calc.adjusted[i].percentage >
         (calc.blended[i].percentage * 1000) \div Total(calc.blended)

\* no REMOVE intent names a will beneficiary
NoRemovalApplies ==
  \A i \in DOMAIN calc.will : ~Excluded(calc.will[i], calc.social)

FromWill == { i \in DOMAIN calc.adjusted : calc.adjusted[i].source = "WILL" }

FromSocial == { i \in DOMAIN calc.adjusted : calc.adjusted[i].source = "SOCIAL" }

RECURSIVE TotalOver(_, _)
TotalOver(beneficiaries, indices) ==
  IF indices = {} THEN 0
  ELSE LET i == CHOOSE j \in indices : TRUE
       IN  beneficiaries[i].percentage + TotalOver(beneficiaries, indices \ {i})

\* C17 (as claimed, for a will list that sums to 100 and to within the tenth
\* of a percent to which shares are rounded): every will beneficiary has, in
\* the returned list, at least originalPercentage * 0.80 * 0.5.
C17_RemovalFloor ==
  (Distributed /\ Total(calc.will) = 1000) =>
    \A i \in FromWill :
      10 * (calc.adjusted[i].percentage + 1) > 4 * calc.adjusted[i].original

\* C18 (as claimed, for a will list that sums to 100): every beneficiary
\* added from social signals has at most 30% in the returned list.
C18_SocialCap ==
  (Distributed /\ Total(calc.will) = 1000) =>
    \A i \in FromSocial : calc.adjusted[i].percentage <= 300

\* C19 (as claimed, for a will list that sums to 100): when no removal signal
\* applies, the will beneficiaries together have at least 80% of the returned
\* list.
C19_WillKeeps80 ==
  (Distributed /\ Total(calc.will) = 1000 /\ NoRemovalApplies) =>
    TotalOver(calc.adjusted, FromWill) >= 800


\* ---------------------------------------------------------------- C20
\* the run of e went through the death declaration and came out without a hash
AttestationFailed(e) ==
  /\ Passed(e)
  /\ e.pc \notin {"idle", "gas", "death"}
  /\ e.deathTxHash = 0
  /\ e.error \notin {"gas balance query failed", "Custody wallet has insufficient gas"}

\* beneficiary b of wallet w (0: the vault) was considered: its amount was
\* zero, or a result for it is in the result array
Considered(e, w, b) ==
  \/ << "zero amount", w, b >> \in e.log
  \/ \E i \in DOMAIN e.results :
        /\ e.results[i].wallet = w
        /\ e.results[i].beneficiary = e.will.beneficiaries[b].name

\* the two loops were run to their ends: every wallet was asked for its
\* balance, and every beneficiary was considered for every wallet that had
\* something to give (for the vault, when it was not empty)
FanOutComplete(e) ==
  IF UsesKitepass(e.will)
    THEN \/ e.walletBalance = 0
         \/ \A b \in DOMAIN e.will.beneficiaries : Considered(e, 0, b)
    ELSE /\ e.w = Len(e.linkedWallets)
         /\ \A w \in DOMAIN e.linkedWallets :
              /\ e.linkedWallets[w] \in e.queried
              /\ \/ \E l \in e.log :
                       /\ l[1] \in {"wallet failed", "zero balance", "zero allowance"}
                       /\ l[2] = w
                 \/ \A b \in DOMAIN e.will.beneficiaries : Considered(e, w, b)

PaidWithoutAttestation(c, kitepass) ==
  /\ exec[c].pc = "done" /\ exec[c].success
  /\ AttestationFailed(exec[c])
  /\ UsesKitepass(exec[c].will) = kitepass
  /\ StoredStatus(exec[c].willId) = "executed"
  /\ ResultsWith(exec[c], "confirmed") # {}

C20_AlreadyRecordedCase ==
  \E c \in Calls :
    /\ AlreadyRecorded(exec[c].willId)
    /\ \E k \in {TRUE, FALSE} : PaidWithoutAttestation(c, k)


\* ---------------------------------------------------------------- C21
Distributions(willId) == { t \in TxsOf(willId) : t.txType = "DISTRIBUTION" }

\* the step is a transfer or withdrawal of call c whose submission or
\* confirmation failed
AttemptFailed(c) ==
  /\ exec[c].pc \in {"transfer", "withdraw"}
  /\ Len(exec'[c].results) > Len(exec[c].results)
  /\ exec'[c].results[Len(exec[c].results) + 1].error = "tx error"

\* every row written for a distribution is confirmed and is the record of an
\* operation the ledger confirmed
RecordsAreOfConfirmedTransfers ==
  \A t \in txs :
    t.txType = "DISTRIBUTION" =>
      /\ t.status = "confirmed"
      /\ \E o \in chain :
           /\ o.txHash = t.txHash /\ o.willId = t.willId /\ o.amount = t.amount
           /\ o.op \in {"transferFrom", "sendTransaction", "withdrawFunds"}

\* the rows of an execution are those of its confirmed results
RecordsMatchConfirmedResults ==
  \A c \in Calls :
    LET e == exec[c]
    IN  Passed(e) =>
          /\ \A i \in ResultsWith(e, "failed") :
                e.results[i].txHash = 0 /\ e.results[i].error # ""
          /\ \A i \in ResultsWith(e, "confirmed") :
                \E t \in Distributions(e.willId) :
                  t.txHash = e.results[i].txHash /\ t.amount = e.results[i].amount
          /\ Cardinality(Distributions(e.willId)) =
               Cardinality(ResultsWith(e, "confirmed"))

\* C21: a transfer or withdrawal whose submission or confirmation fails
\* leaves the tables transactions and linked_wallets and the ledger as they
\* were and appends exactly one failed result, with the error, for its pair;
\* and every DISTRIBUTION row has status confirmed and is the record of an
\* operation the ledger confirmed, one row for each confirmed result.
C21_FailedAttemptWritesNothing ==
  /\ [][ \A c \in Calls :
           AttemptFailed(c) =>
             LET e == exec[c]
                 f == exec'[c].results[Len(e.results) + 1]
             IN  /\ txs' = txs /\ linked' = linked /\ chain' = chain
                 /\ nextHash' = nextHash
                 /\ \A i \in DOMAIN wills :
                      wills'[i] = wills[i] \/
                      wills'[i] = [wills[i] EXCEPT !.status = "executed"]
                 /\ f.status = "failed" /\ f.txHash = 0 /\ f.amount = e.amount
                 /\ f.beneficiary = e.will.beneficiaries[e.b].name
                 /\ SubSeq(exec'[c].results, 1, Len(e.results)) = e.results
                 /\ Cardinality(ResultsFor(exec'[c], e.w, e.b)) = 1 ]_vars
  /\ [](RecordsAreOfConfirmedTransfers /\ RecordsMatchConfirmedResults)

\* C21 witness: an execution has returned with a failed transfer, which left
\* no row, and a confirmed one, whose row is the only row of the will
C21_Witness ==
  \E c \in Calls :
    LET e == exec[c]
    IN  /\ e.pc = "done" /\ e.success
        /\ \E i \in ResultsWith(e, "failed") : e.results[i].error = "tx error"
        /\ Cardinality(ResultsWith(e, "confirmed")) = 1
        /\ Cardinality(Distributions(e.willId)) = 1


\* ---------------------------------------------------------------- C22
RECURSIVE ConfirmedTotal(_)
ConfirmedTotal(results) ==
  IF results = << >> THEN 0
  ELSE (IF Head(results).status = "confirmed" THEN Head(results).amount ELSE 0)
       + ConfirmedTotal(Tail(results))

\* floor(B * p / 100), p in hundredths of a percent
FloorOfShare(balance, percentage) == (balance * percentage) \div 10000

\* the scenario: a returned direct execution of the stored list, summing to
\* 100, over one wallet whose queries answered, with a distributable balance
\* B of which every share is positive, stored limits with dailySpent 0,
\* perTxLimit >= every amount and dailyLimit >= B, and no transfer failed
EndToEnd(e) ==
  /\ e.pc = "done" /\ e.success /\ Direct(e)
  /\ e.overrideBeneficiaries = << >>
  /\ SumOfPercentages(e.will.beneficiaries) = 10000
  /\ Len(e.linkedWallets) = 1 /\ ~WalletSkipped(e, 1)
  /\ LET l == wills[e.willId].spendingLimits
     IN  /\ l.dailySpent = 0
         /\ l.dailyLimit >= e.walletBalance
         /\ \A b \in DOMAIN e.will.beneficiaries :
              LET amount == FloorOfShare(e.walletBalance, e.will.beneficiaries[b].percentage)
              IN  amount > 0 /\ amount <= l.perTxLimit
  /\ \A i \in ResultsWith(e, "failed") :
       e.results[i].error \notin {"tx error", "store error"}

\* one confirmed transfer of floor(B * p / 100) for each beneficiary, in list
\* order, and the status executed
TransfersAsComputed(e) ==
  /\ Len(e.results) = Len(e.will.beneficiaries)
  /\ \A b \in DOMAIN e.will.beneficiaries :
       /\ e.results[b].status = "confirmed"
       /\ e.results[b].beneficiary = e.will.beneficiaries[b].name
       /\ e.results[b].amount =
            FloorOfShare(e.walletBalance, e.will.beneficiaries[b].percentage)
  /\ StoredStatus(e.willId) = "executed"

\* C22 (as claimed): in the scenario the execution returns one confirmed
\* transfer of floor(B * p / 100) for each beneficiary in list order, the
\* status becomes executed and the will's dailySpent ends equal to the sum of
\* the amounts.
C22_EndToEnd ==
  \A c \in Calls :
    EndToEnd(exec[c]) =>
      /\ TransfersAsComputed(exec[c])
      /\ wills[exec[c].willId].spendingLimits.dailySpent =
           ConfirmedTotal(exec[c].results)

\* the same with the dailySpent of the working copy the execution held
C22_EndToEndInWorkingCopy ==
  \A c \in Calls :
    EndToEnd(exec[c]) =>
      /\ TransfersAsComputed(exec[c])
      /\ exec[c].will.spendingLimits.dailySpent = ConfirmedTotal(exec[c].results)

\* the scenario with both caps met exactly: 600 and 400 of 1000
C22_Scenario ==
  \E c \in Calls :
    /\ EndToEnd(exec[c])
    /\ exec[c].walletBalance = 1000
    /\ wills[exec[c].willId].spendingLimits.dailyLimit = 1000
    /\ wills[exec[c].willId].spendingLimits.perTxLimit = 1000
    /\ exec[c].results[1].amount = 600 /\ exec[c].results[2].amount = 400


\* ---------------------------------------------------------------- C23
\* C23 (as claimed): when an execution has returned, the spendingLimits of
\* the will in the store are those the execution left in its working copy:
\* dailySpent is the sum of the amounts confirmed on the day of the last
\* reset, and lastResetDate is that day.
C23_LimitsWrittenBack ==
  \A c \in Calls :
    (exec[c].pc = "done" /\ exec[c].success /\ Direct(exec[c])) =>
      wills[exec[c].willId].spendingLimits = exec[c].will.spendingLimits


\* ---------------------------------------------------------------- C24
\* the index of the beneficiary a result names
IndexOf(e, name) ==
  CHOOSE b \in DOMAIN e.will.beneficiaries : e.will.beneficiaries[b].name = name

\* pair (w1, b1) comes before pair (w2, b2) in the order of the two loops
Before(w1, b1, w2, b2) == w1 < w2 \/ (w1 = w2 /\ b1 < b2)

\* the submissions of e that have an outcome in the result list
Settled(e) ==
  { s \in e.submitted :
      \E i \in DOMAIN e.results :
        /\ e.results[i].wallet = s.wallet
        /\ e.results[i].beneficiary = e.will.beneficiaries[s.b].name
        /\ e.results[i].error \in {"", "tx error"} }

\* the approved rows of the will, as the state holds them
ApprovedRows(willId) == { r \in linked : r.willId = willId /\ r.status = "approved" }

\* C24: an execution loads the approved wallets in ascending approval time;
\* its results are in the order of (wallet, beneficiary); a pair is checked
\* and submitted only after every earlier pair has an outcome, so that at
\* most one transfer is unsettled, and only while the execution waits for it;
\* nothing is submitted before the attestation step is over, and a recorded
\* attestation has a smaller hash than every transfer; and the will is
\* pending in the store as long as the execution runs.
C24_StrictlySequential ==
  /\ [][ \A c \in Calls :
           (exec[c].pc = "death" /\ exec'[c].pc # "death" /\ Direct(exec[c])) =>
             LET rows == ApprovedRows(exec[c].willId)
                 list == exec'[c].linkedWallets
             IN  IF rows = {} THEN list = << exec[c].will.owner >>
                 ELSE /\ Len(list) = Cardinality(rows)
                      /\ \A i \in DOMAIN list : \E r \in rows : r.address = list[i]
                      /\ \A i, j \in DOMAIN list :
                           i < j =>
                             \A r, q \in rows :
                               (r.address = list[i] /\ q.address = list[j])
                                 => r.approvedAt < q.approvedAt ]_vars
  /\ [](\A c \in Calls :
          LET e == exec[c]
          IN  Passed(e) =>
                /\ \A i, j \in DOMAIN e.results :
                     i < j =>
                       Before(e.results[i].wallet, IndexOf(e, e.results[i].beneficiary),
                              e.results[j].wallet, IndexOf(e, e.results[j].beneficiary))
                /\ e.pc \in {"transfer", "withdraw"} =>
                     /\ \A i \in DOMAIN e.results :
                          Before(e.results[i].wallet,
                                 IndexOf(e, e.results[i].beneficiary), e.w, e.b)
                     /\ \A s \in e.submitted :
                          \/ s.b = e.b /\ s.wallet = e.w
                          \/ Before(s.wallet, s.b, e.w, e.b)
                /\ Cardinality(e.submitted \ Settled(e)) =
                     IF e.pc \in {"transfer", "withdraw"} THEN 1 ELSE 0
                /\ e.pc \in {"gas", "death"} => e.submitted = {} /\ e.results = << >>
                /\ e.deathTxHash # 0 =>
                     \A i \in ResultsWith(e, "confirmed") :
                       e.results[i].txHash > e.deathTxHash
                /\ Running(c) => StoredStatus(e.willId) = "pending")

\* C24 witness: an execution over two wallets approved at different times and
\* two beneficiaries has returned with the attestation and four results
C24_Witness ==
  \E c \in Calls :
    LET e == exec[c]
    IN  /\ e.pc = "done" /\ e.success /\ e.deathTxHash # 0
        /\ Len(e.linkedWallets) = 2 /\ Len(e.results) = 4
        /\ e.results[1].wallet = 1 /\ e.results[4].wallet = 2
        /\ Cardinality(ResultsWith(e, "confirmed")) >= 2


\* ---------------------------------------------------------------- C25
\* C25: whatever the interleaving of the invocations for one will, the
\* dailySpent of an invocation is the sum of the transfers that this
\* invocation saw confirmed, and never more than dailyLimit, while the row in
\* the store keeps the dailySpent it had; that is, each invocation limits its
\* own spend and nothing limits their sum.
C25_EachInvocationCountsItsOwnSpend ==
  \A c \in Calls :
    LET e == exec[c]
    IN  Passed(e) =>
          /\ e.will.spendingLimits.dailySpent = ConfirmedTotal(e.results)
          /\ e.will.spendingLimits.dailySpent <= e.will.spendingLimits.dailyLimit
          /\ wills[e.willId].spendingLimits.dailySpent = 0

\* the transfers the ledger confirmed for the will
TransfersOf(willId) ==
  { o \in chain : o.willId = willId /\ o.op \in {"transferFrom", "sendTransaction"} }

\* C25 witness: two invocations for the same will have both passed the status
\* check and both returned success; each beneficiary was paid twice, and the
\* two together spent, on one day, more than dailyLimit
C25_Witness ==
  \E c, d \in Calls :
    /\ c # d
    /\ exec[c].pc = "done" /\ exec[c].success
    /\ exec[d].pc = "done" /\ exec[d].success
    /\ exec[c].willId = exec[d].willId
    /\ \A x \in {"x", "y"} :
         Cardinality({ o \in TransfersOf(exec[c].willId) : o.to = x }) = 2
    /\ exec[c].will.spendingLimits.lastResetDate = exec[d].will.spendingLimits.lastResetDate
    /\ ConfirmedTotal(exec[c].results) + ConfirmedTotal(exec[d].results)
         > wills[exec[c].willId].spendingLimits.dailyLimit

\* only one invocation at a time is past the status check of a will
C25_MutualExclusion ==
  \A c, d \in Calls :
    (c # d /\ Running(c) /\ Running(d)) => exec[c].willId # exec[d].willId


\* ---------------------------------------------------------------- C26
\* the list the execution is to use: the override when it is not empty, the
\* stored list otherwise
ListToUse(e) ==
  IF e.overrideBeneficiaries # << >> THEN e.overrideBeneficiaries
  ELSE wills[e.willId].beneficiaries

\* the operation the ledger confirmed under the hash
OpOf(txHash) == CHOOSE o \in chain : o.txHash = txHash

\* C26: an execution works on the override list when one is given and on the
\* stored list otherwise: every amount it submits is the share of the wallet
\* (or vault) balance that this list gives the beneficiary, every confirmed
\* transfer and its record go to the address this list names, and a recorded
\* attestation carries the length of this list; and no step of an execution
\* changes the beneficiary list of a will in the store.
C26_OverrideReplacesStoredList ==
  /\ [](\A c \in Calls :
          LET e == exec[c]
              list == ListToUse(e)
          IN  Passed(e) =>
                /\ e.will.beneficiaries = list
                /\ \A s \in e.submitted :
                     s.amount = Amount(e.walletBalance, list[s.b].percentage)
                /\ \A i \in ResultsWith(e, "confirmed") :
                     \E b \in DOMAIN list :
                       /\ e.results[i].beneficiary = list[b].name
                       /\ e.results[i].amount = Amount(e.walletBalance, list[b].percentage)
                       /\ \E t \in Distributions(e.willId) :
                            /\ t.txHash = e.results[i].txHash
                            /\ t.beneficiaryAddress = list[b].address
                            /\ t.amount = e.results[i].amount
                       /\ OpOf(e.results[i].txHash).to \in {list[b].address, NoRecipient}
                /\ e.deathTxHash # 0 => OpOf(e.deathTxHash).amount = Len(list))
  /\ [][ \A i \in DOMAIN wills :
           i \in DOMAIN wills' /\ wills'[i].beneficiaries = wills[i].beneficiaries ]_vars

\* C26 witness: an execution given an override list has returned; it paid the
\* beneficiary that only the override names, and half of the balance, and the
\* executed will in the store still holds the list it held
C26_Witness ==
  \E c \in Calls :
    LET e == exec[c]
    IN  /\ e.pc = "done" /\ e.success
        /\ e.overrideBeneficiaries = BOverride
        /\ e.deathTxHash # 0
        /\ \E i \in ResultsWith(e, "confirmed") :
             /\ e.results[i].beneficiary = "Z"
             /\ e.results[i].amount = 500
        /\ wills[e.willId].status = "executed"
        /\ wills[e.willId].beneficiaries = B6040


\* ---------------------------------------------------------------- C27
\* the ledger operation of row t debited the account the row names as source
\* and credited the address the row names, for the amount of the row
RecordTellsWhatMoved(t) ==
  LET o == OpOf(t.txHash)
  IN  /\ toLowerCase(o.from) = toLowerCase(t.owner)
      /\ toLowerCase(o.to) = toLowerCase(t.beneficiaryAddress)
      /\ o.amount = t.amount

\* C27 (as claimed): in each execution mode every confirmed DISTRIBUTION row
\* tells what the ledger did.
C27_RecordsTellWhatMoved ==
  \A t \in txs :
    (t.txType = "DISTRIBUTION" /\ t.status = "confirmed") => RecordTellsWhatMoved(t)

\* the rows of pulls of the settlement token (transferFrom) do tell it
C27_TokenPullsTellWhatMoved ==
  \A t \in txs :
    (t.txType = "DISTRIBUTION" /\ OpOf(t.txHash).op = "transferFrom")
      => RecordTellsWhatMoved(t)


\* ---------------------------------------------------------------- C28
\* the transfers and withdrawals the ledger confirmed for the will of e
FundsMoved(e) ==
  { o \in chain : o.willId = e.willId /\
                  o.op \in {"transferFrom", "sendTransaction", "withdrawFunds"} }

\* C28 (as claimed): every transfer or withdrawal the ledger confirmed for an
\* execution is a confirmed entry of its result list, with the amount that
\* moved, so that the failed entries are of pairs for which no funds moved.
C28_ConfirmedTransfersAreReported ==
  \A c \in Calls :
    LET e == exec[c]
    IN  Passed(e) =>
          \A o \in FundsMoved(e) :
            \E i \in ResultsWith(e, "confirmed") :
              e.results[i].txHash = o.txHash /\ e.results[i].amount = o.amount


\* ---------------------------------------------------------------- C29
\* the will with other signed bounds in the place of its own
WithBounds(will, totalAmount, validUntil) ==
  IF will = NoWill THEN will
  ELSE [will EXCEPT !.totalAmount = totalAmount, !.validUntil = validUntil]

\* the invocation whose working copy carries other signed bounds
Rebound(e, totalAmount, validUntil) ==
  [e EXCEPT !.will = WithBounds(@, totalAmount, validUntil)]

\* the validation and the override answer the same for both wills
SameAdmission(willId, owner, overrideBeneficiaries, totalAmount, validUntil) ==
  LET will  == getWillById(willId)
      other == WithBounds(will, totalAmount, validUntil)
  IN  /\ ValidationError(other, owner) = ValidationError(will, owner)
      /\ UseOverride(other, overrideBeneficiaries)
           = WithBounds(UseOverride(will, overrideBeneficiaries), totalAmount, validUntil)

\* from the point the invocation e has reached, every continuation of the
\* code takes the invocation with other bounds to the same place, with the
\* same results, the same ledger operation and the same record
SameContinuation(e, f, totalAmount, validUntil) ==
  /\ UsesKitepass(f.will) = UsesKitepass(e.will)
  /\ f.results = e.results /\ f.pc = e.pc /\ f.success = e.success
  /\ e.pc = "death" =>
       /\ AfterDeath(f) = Rebound(AfterDeath(e), totalAmount, validUntil)
       /\ DeathFailed(f) = Rebound(DeathFailed(e), totalAmount, validUntil)
  /\ e.pc \in {"meta", "balance", "allowance"} =>
       NextWallet(f) = Rebound(NextWallet(e), totalAmount, validUntil)
  /\ e.pc \in {"balance", "allowance"} =>
       \A raw \in Balances, day \in 1 .. MaxDay :
         FanOut([f EXCEPT !.walletBalance = raw], 1, day)
           = Rebound(FanOut([e EXCEPT !.walletBalance = raw], 1, day),
                     totalAmount, validUntil)
  /\ e.pc = "vault" =>
       \A raw \in Balances :
         VaultFanOut([f EXCEPT !.walletBalance = raw], 1)
           = Rebound(VaultFanOut([e EXCEPT !.walletBalance = raw], 1),
                     totalAmount, validUntil)
  /\ e.pc = "transfer" =>
       /\ \A day \in 1 .. MaxDay :
            /\ AfterTxConfirmed(f, nextHash, day)
                 = Rebound(AfterTxConfirmed(e, nextHash, day), totalAmount, validUntil)
            /\ AfterTxFailure(f, day)
                 = Rebound(AfterTxFailure(e, day), totalAmount, validUntil)
            /\ FanOut(StoreFailed(f), f.b + 1, day)
                 = Rebound(FanOut(StoreFailed(e), e.b + 1, day), totalAmount, validUntil)
       /\ TransferOp(f, nextHash) = TransferOp(e, nextHash)
       /\ DistributionRecord(f, f.linkedWallets[f.w], nextHash)
            = DistributionRecord(e, e.linkedWallets[e.w], nextHash)
  /\ e.pc = "withdraw" =>
       /\ VaultFanOut(TxFailed(f), f.b + 1)
            = Rebound(VaultFanOut(TxFailed(e), e.b + 1), totalAmount, validUntil)
       /\ VaultFanOut([f EXCEPT !.results =
                         Append(@, ConfirmedResult(f, f.b, f.amount, nextHash))],
                      f.b + 1)
            = Rebound(VaultFanOut([e EXCEPT !.results =
                         Append(@, ConfirmedResult(e, e.b, e.amount, nextHash))],
                      e.b + 1), totalAmount, validUntil)
       /\ WithdrawOp(f, nextHash) = WithdrawOp(e, nextHash)
       /\ DistributionRecord(f, f.will.kitepassAddress, nextHash)
            = DistributionRecord(e, e.will.kitepassAddress, nextHash)

\* C29: the outcome of executeWill does not depend on the signed bounds.  For
\* every stored will and every invocation under way, the will that differs
\* only in totalAmount and validUntil is admitted or rejected with the same
\* answer, and every step of the code takes the two invocations to working
\* states that differ only in those two fields, with the same results, the
\* same ledger operations, the same records and the same final status.
C29_OutcomeIndependentOfSignedBounds ==
  \A totalAmount \in TotalAmounts, validUntil \in ValidUntils :
    /\ \A willId \in WillIds, owner \in Addresses, overrideBeneficiaries \in Overrides :
         SameAdmission(willId, owner, overrideBeneficiaries, totalAmount, validUntil)
    /\ \A c \in Calls :
         Passed(exec[c]) =>
           SameContinuation(exec[c], Rebound(exec[c], totalAmount, validUntil),
                            totalAmount, validUntil)

\* a will whose validUntil had passed when it was invoked has been executed,
\* and the total distributed is above its totalAmount
C29_Witness ==
  \E c \in Calls :
    LET e == exec[c]
    IN  /\ e.pc = "done" /\ e.success
        /\ e.will.validUntil < today
        /\ wills[e.willId].validUntil < today
        /\ wills[e.willId].status = "executed"
        /\ ConfirmedTotal(e.results) > e.will.totalAmount
        /\ Cardinality(FundsMoved(e)) >= 2


\* ================================================ the shares of one balance
\* the longest beneficiary list the shares are computed for
MaxShares == 3

\* percentages in hundredths of a percent, with one or two decimal places, on
\* both sides of a tie of the rounding to a tenth
SharePercentages ==
  { 5, 3330, 3333, 3334, 3335, 3630, 4000, 4995, 5000, 5005, 6000, 6370, 9995 }

RECURSIVE SumOfShares(_)
SumOfShares(shares) ==
  IF shares = << >> THEN 0 ELSE Head(shares) + SumOfShares(Tail(shares))

\* the lists of percentages that sum to exactly 100
ShareLists ==
  { list \in UNION { [1 .. n -> SharePercentages] : n \in 1 .. MaxShares } :
      SumOfShares(list) = 10000 }

\* distributable balances, in base units
ShareBalances == { 1, 999, 1000 }

InitShares ==
  /\ QuietStore
  /\ \E mode \in {"direct", "vault"}, balance \in ShareBalances, list \in ShareLists :
       calc = [fn |-> "shares", mode |-> mode, balance |-> balance,
               percentages |-> list, scaled |-> << >>, amounts |-> << >>]

\* the share of the next beneficiary of the list
NextShare ==
  LET b == Len(calc.amounts) + 1
  IN  [calc EXCEPT !.scaled = Append(@, percentageScaled(calc.percentages[b])),
                   !.amounts = Append(@, Amount(calc.balance, calc.percentages[b]))]

\* executeWill: one iteration of for (const beneficiary of will.beneficiaries)
DirectShare ==
  /\ calc.fn = "shares" /\ calc.mode = "direct"
  /\ Len(calc.amounts) < Len(calc.percentages)
  /\ calc' = NextShare
  /\ UNCHANGED << wills, linked, txs, now, today, nextHash, exec, reply, chain >>

\* executeWithKitepass: one iteration of the same loop over the vault balance
VaultShare ==
  /\ calc.fn = "shares" /\ calc.mode = "vault"
  /\ Len(calc.amounts) < Len(calc.percentages)
  /\ calc' = NextShare
  /\ UNCHANGED << wills, linked, txs, now, today, nextHash, exec, reply, chain >>

NextShares == DirectShare \/ VaultShare

SpecShares == InitShares /\ [][NextShares]_vars

\* ---------------------------------------------------------------- C30
\* the loop has computed the share of every beneficiary of the list
SharesComputed ==
  calc.fn = "shares" /\ Len(calc.amounts) = Len(calc.percentages)

\* C30 (as claimed): for every list whose percentages sum to exactly 100 and
\* every balance, the sum of round(percentage * 10) over the list is at most
\* 1000 and the sum of the amounts computed is at most the balance.
C30_SharesWithinBalance ==
  SharesComputed =>
    /\ SumOfShares(calc.scaled) <= 1000
    /\ SumOfShares(calc.amounts) <= calc.balance

\* the shares of 50.05 % and 49.95 % of a balance of 1000 are 501 and 500
C30_SharesAboveBalance ==
  /\ SharesComputed
  /\ calc.percentages = << 5005, 4995 >>
  /\ calc.balance = 1000
  /\ calc.amounts = << 501, 500 >>

\* what does hold: the rounding adds at most half a tenth of a percent for
\* each beneficiary, so the amounts exceed the balance by less than one part
\* in 2000 of it for each beneficiary
C30_SharesWithinRounding ==
  SharesComputed =>
    /\ 2 * SumOfShares(calc.scaled) <= 2000 + Len(calc.percentages)
    /\ 2000 * SumOfShares(calc.amounts)
         <= (2000 + Len(calc.percentages)) * calc.balance

====
